---- MODULE Spec2Model ----
(***************************************************************************)
(* Model of the consensus-state write application                          *)
(* (crates/state/src/operation.rs) and of the duty dispatcher              *)
(* (crates/consensus-logic/src/duty_executor.rs).                          *)
(*                                                                         *)
(* Two specifications share the module: SpecWrites drives                  *)
(* apply_writes_to_state one write at a time, SpecDuty drives              *)
(* duty_dispatch_task and the worker threads it spawns.                    *)
(***************************************************************************)
EXTENDS Integers, Sequences, FiniteSets, TLC

(***************************************************************************)
(* Bounds of the model.                                                    *)
(***************************************************************************)
MaxL1Id == 3
MaxL2Id == 1
MaxRecent == 3
MaxPending == 1
MaxBuried == 3
MaxDutyId == 2
MaxEvIdx == 2
ChanCapacity == 1
MaxBlockNum == 2    \* L1 block heights the reader sends: 1..MaxBlockNum
MaxBlocks == 2      \* BlockData the reader sends in a behaviour
RxCapacity == 1     \* capacity of the reader -> handler mpsc channel
MaxCallers == 2      \* threads calling StubController::prepare_payload
MaxCalls == 4        \* prepare_payload calls started in a behaviour
MaxSubmitters == 2   \* concurrent callers of submit_checkpoint_proof
MaxSubmits == 3      \* submit_checkpoint_proof calls started in a behaviour
MaxStoredBlocks == 2 \* L2 blocks the store may hold: ids 1..MaxStoredBlocks
FetchLimit == 2      \* params.run().l2_blocks_fetch_limit
MaxTxs == 5          \* transactions of a block
MaxStfBlocks == 2    \* L2 blocks given to verify_and_transition
MaxPushLen == 81      \* bytes of the data push of a deposit request script
MaxAddressLength == 44 \* the longest configured destination address
MaxBlobs == 2         \* blob entries handed to the inscription signer
MaxStopCallers == 2   \* RPC clients calling the admin stop
MaxStopCalls == 3     \* stop calls made in all
MaxBatchLen == 3
MaxWitnessIdx == 2
IdxBits == 3             \* the width of idx: u64 scaled down to IdxBits bits
MaxOversleepMs == 50    \* thread::sleep(wait) returns after wait .. wait + MaxOversleepMs

\* sign_block: `wait` and `timeout` of the payload poll, in ms.
WaitMs == 100
TimeoutMs == 3000

L1BlockIds == 1..MaxL1Id
L2BlockIds == 1..MaxL2Id
\* ConsensusChainState is opaque to apply_writes_to_state: two values suffice
\* to tell "replaced" from "kept".
ChainStates == {"ccs0", "ccs1"}
\* Duty ids (Duty::id(), a u64).
DutyIds == 1..MaxDutyId

VARIABLES
    state,      \* the ConsensusState behind `state: &mut ConsensusState`
    write,      \* the write `w` the loop of apply_writes_to_state took last
    panicked    \* TRUE once a panic!() has aborted the process

writeVars == <<state, write, panicked>>

VARIABLES
    ev_idx,          \* sync event index of the last DutyBatch published
    chan,            \* DutyBatches the broadcast channel retains for the dispatcher
    missed,          \* batches overwritten before the dispatcher received them
    closed,          \* TRUE once the broadcast sender is dropped
    update,          \* the DutyBatch `update` the dispatcher received last
    pending_duties,  \* HashMap<u64, JoinHandle>: duty id -> index in threads, 0 if absent
    threads,         \* the worker threads spawned so far, in spawn order
    dispatch_pc      \* "loop" while duty_dispatch_task runs, "exited" after it returns

dutyVars ==
    <<ev_idx, chan, missed, closed, update, pending_duties, threads, dispatch_pc>>

VARIABLES
    notif_idx,       \* sync event index of the last ConsensusUpdateNotif published
    notif_chan,      \* notifications the broadcast channel retains for the tracker
    notif_missed,    \* notifications overwritten before the tracker received them
    notif_closed,    \* TRUE once the notification sender is dropped
    duties_tracker,  \* the DutyTracker's duties, in insertion order
    batch_queue,     \* the DutyBatches the tracker has published, oldest first
    tracker_pc,      \* "loop" while duty_tracker_task runs, "exited" after it returns
    update_result    \* what the last call of update_tracker returned: "none", "Ok", "Err"

trackerVars ==
    <<notif_idx, notif_chan, notif_missed, notif_closed, duties_tracker, batch_queue, tracker_pc,
      update_result>>

VARIABLES
    rx_queue,     \* the BlockData the mpsc channel holds for the handler
    rx_sent,      \* how many BlockData the reader has sent
    rx_closed,    \* TRUE once the reader has dropped the mpsc sender
    l1db,         \* L1 database: block height -> what put_block_data stored there
    sync_events,  \* the sync-event log, oldest first
    warned_none,  \* TRUE once "Bitcoin reader sent None blockdata" was logged
    handler_pc    \* "loop" while bitcoin_data_handler runs, "failed" once it returned Err

handlerVars ==
    <<rx_queue, rx_sent, rx_closed, l1db, sync_events, warned_none, handler_pc>>

VARIABLES
    sign_pc,         \* where sign_block is: "start", "polling" or "done"
    sign_result,     \* what sign_block returned, "none" while it runs
    elapsed,         \* poll_status_loop: time::Instant::now() - start, in ms
    polled,          \* the answers get_payload_status has given to the job
    blocks_at_slot   \* how many L2 blocks the store holds at height slot

signVars == <<sign_pc, sign_result, elapsed, polled, blocks_at_slot>>

VARIABLES
    next_idx,      \* StubController: state.next_idx
    payload_jobs,  \* StubController: the keys of state.payload_jobs
    mutex,         \* the caller holding the Mutex<State>, 0 when it is free
    call_pc,       \* per caller: where its prepare_payload call is
    call_idx,      \* per caller: the local `idx` of its call
    calls,         \* how many prepare_payload calls have been started
    returned       \* the ids prepare_payload has returned, in order of return

stubVars == <<next_idx, payload_jobs, mutex, call_pc, call_idx, calls, returned>>

VARIABLES
    verify_proofs,  \* params.rollup().verify_proofs
    checkpoint,     \* the checkpoint entry the database holds for idx
    sub_pc,         \* per caller: "idle", or "put" between get_checkpoint and the put
    sub_entry,      \* per caller: the local `entry` of its call
    sub_call,       \* per caller: arguments, entry read and result of its last call
    last_submit,    \* the caller whose call read the entry last
    submits         \* how many submit_checkpoint_proof calls have been started

proofVars ==
    <<verify_proofs, checkpoint, sub_pc, sub_entry, sub_call, last_submit, submits>>

VARIABLES
    l2_store,     \* the L2 block store: block id -> header data, NoBlock if absent
    client_sync,  \* cl_state.sync(): <<>> for None, <<tip_blkid>> for Some
    hdr_call      \* count and result of the last get_recent_block_headers call

headersVars == <<l2_store, client_sync, hdr_call>>

VARIABLES
    l1tx_call  \* the generate_l1_tx call made: the block's txids, idx and the outcome

merkleVars == <<l1tx_call>>

VARIABLES
    stf_pc,      \* where the verify_and_transition call is
    stf_block,   \* the new_l2_block of the call
    stf_prev,    \* the prev_chstate of the call
    stf_steps,   \* the checks and transition steps the call has run, in order
    stf_result,  \* the chain state the call returned
    stf_chain    \* the chain state the caller holds

stfVars == <<stf_pc, stf_block, stf_prev, stf_steps, stf_result, stf_chain>>

VARIABLES
    deposit_call   \* the parse_deposit_request_script or extract_deposit_request_info call made and its outcome

depositVars == <<deposit_call>>

VARIABLES
    insc_pc,      \* where the create_and_sign_blob_inscriptions call is
    insc_blob,    \* the blob of the call
    insc_commit,  \* the commit transaction built, then signed
    insc_reveal,  \* the reveal transaction built
    insc_result,  \* what the call returned
    bcast_store   \* the tx entries of the broadcaster store, by txid

inscriptionVars == <<insc_pc, insc_blob, insc_commit, insc_reveal, insc_result, bcast_store>>

VARIABLES
    stop_tx,       \* the Option of the oneshot sender, under the mutex
    stop_lock,     \* the caller holding the guard of stop_tx, 0 for none
    stop_pc,       \* where each caller's stop call is
    stop_rx,       \* the receiving end of the oneshot
    stop_takes,    \* the callers that ran opt.take(), in order
    stop_sent_by,  \* the callers that called send on the oneshot, in order
    stop_results,  \* what the calls returned, in order
    stop_calls     \* stop calls made so far

stopVars == <<stop_tx, stop_lock, stop_pc, stop_rx, stop_takes, stop_sent_by, stop_results, stop_calls>>

VARIABLES
    csm_l2_events   \* the L2 block events the consensus state machine has been sent

csmVars == <<csm_l2_events>>

VARIABLES
    wb_input,    \* the chainstate apply_write_batch_to_chainstate was called with
    wb_ops,      \* batch.ops
    wb_pos,      \* number of ops the for loop has gone through
    chainstate,  \* the local `mut chainstate`
    wb_pc,       \* "idle", "loop" inside the for loop, "done" after the return
    wb_first     \* the result of the first application while the batch is replayed

batchVars == <<wb_input, wb_ops, wb_pos, chainstate, wb_pc, wb_first>>

VARIABLES
    l2_heights,       \* the heights at which the L2 store has a block
    toplevel_states,  \* the indexes at which the chainstate store has a toplevel state
    wit_call          \* the last get_block_witness_raw call: idx, the index it asked the chainstate store for, its result

witnessVars == <<l2_heights, toplevel_states, wit_call>>

vars ==
    <<writeVars, dutyVars, trackerVars, handlerVars, signVars, stubVars, proofVars,
      headersVars, merkleVars, stfVars, depositVars, inscriptionVars, stopVars,
      csmVars, batchVars, witnessVars>>

\* What a step of apply_writes_to_state, resp. of the dispatcher and its
\* workers, resp. of the tracker, leaves alone.
notWriteVars ==
    <<dutyVars, trackerVars, handlerVars, signVars, stubVars, proofVars, headersVars,
      merkleVars, stfVars, depositVars, inscriptionVars, stopVars, csmVars, batchVars,
      witnessVars>>
notDutyVars ==
    <<writeVars, trackerVars, handlerVars, signVars, stubVars, proofVars, headersVars,
      merkleVars, stfVars, depositVars, inscriptionVars, stopVars, csmVars, batchVars,
      witnessVars>>
notTrackerVars ==
    <<writeVars, dutyVars, handlerVars, signVars, stubVars, proofVars, headersVars,
      merkleVars, stfVars, depositVars, inscriptionVars, stopVars, csmVars, batchVars,
      witnessVars>>
notHandlerVars ==
    <<writeVars, dutyVars, trackerVars, signVars, stubVars, proofVars, headersVars,
      merkleVars, stfVars, depositVars, inscriptionVars, stopVars, csmVars, batchVars,
      witnessVars>>
notSignVars ==
    <<writeVars, dutyVars, trackerVars, handlerVars, stubVars, proofVars, headersVars,
      merkleVars, stfVars, depositVars, inscriptionVars, stopVars, csmVars, batchVars,
      witnessVars>>
notStubVars ==
    <<writeVars, dutyVars, trackerVars, handlerVars, signVars, proofVars, headersVars,
      merkleVars, stfVars, depositVars, inscriptionVars, stopVars, csmVars, batchVars,
      witnessVars>>
notProofVars ==
    <<writeVars, dutyVars, trackerVars, handlerVars, signVars, stubVars, headersVars,
      merkleVars, stfVars, depositVars, inscriptionVars, stopVars, csmVars, batchVars,
      witnessVars>>
notHeadersVars ==
    <<writeVars, dutyVars, trackerVars, handlerVars, signVars, stubVars, proofVars,
      merkleVars, stfVars, depositVars, inscriptionVars, stopVars, csmVars, batchVars,
      witnessVars>>
notMerkleVars ==
    <<writeVars, dutyVars, trackerVars, handlerVars, signVars, stubVars, proofVars,
      headersVars, stfVars, depositVars, inscriptionVars, stopVars, csmVars,
      batchVars, witnessVars>>
notStfVars ==
    <<writeVars, dutyVars, trackerVars, handlerVars, signVars, stubVars, proofVars,
      headersVars, merkleVars, depositVars, inscriptionVars, stopVars, csmVars,
      batchVars, witnessVars>>
notDepositVars ==
    <<writeVars, dutyVars, trackerVars, handlerVars, signVars, stubVars, proofVars,
      headersVars, merkleVars, stfVars, inscriptionVars, stopVars, csmVars, batchVars,
      witnessVars>>
notInscriptionVars ==
    <<writeVars, dutyVars, trackerVars, handlerVars, signVars, stubVars, proofVars,
      headersVars, merkleVars, stfVars, depositVars, stopVars, csmVars, batchVars,
      witnessVars>>
notStopVars ==
    <<writeVars, dutyVars, trackerVars, handlerVars, signVars, stubVars, proofVars,
      headersVars, merkleVars, stfVars, depositVars, inscriptionVars, csmVars,
      batchVars, witnessVars>>
notCsmVars ==
    <<writeVars, dutyVars, trackerVars, handlerVars, signVars, stubVars, proofVars,
      headersVars, merkleVars, stfVars, depositVars, inscriptionVars, stopVars,
      batchVars, witnessVars>>
notBatchVars ==
    <<writeVars, dutyVars, trackerVars, handlerVars, signVars, stubVars, proofVars,
      headersVars, merkleVars, stfVars, depositVars, inscriptionVars, stopVars,
      csmVars, witnessVars>>
notWitnessVars ==
    <<writeVars, dutyVars, trackerVars, handlerVars, signVars, stubVars, proofVars,
      headersVars, merkleVars, stfVars, depositVars, inscriptionVars, stopVars,
      csmVars, batchVars>>

(***************************************************************************)
(* Helpers on sequences.                                                   *)
(***************************************************************************)
SeqsUpTo(S, n) == UNION {[1..k -> S] : k \in 0..n}

Range(s) == {s[i] : i \in 1..Len(s)}

\* No element occurs twice.
NoDup(s) == \A i, j \in 1..Len(s) : s[i] = s[j] => i = j

\* Variant: the index of the last element equal to x (Iterator::rposition).
PositionLast(s, x) ==
    IF \E i \in 1..Len(s) : s[i] = x
    THEN (CHOOSE i \in 1..Len(s) : s[i] = x /\ \A j \in (i + 1)..Len(s) : s[j] # x) - 1
    ELSE -1

\* Iterator::position: the 0-based index of the first element equal to x,
\* or None (here -1).
Position(s, x) ==
    IF \E i \in 1..Len(s) : s[i] = x
    THEN (CHOOSE i \in 1..Len(s) : s[i] = x /\ \A j \in 1..(i - 1) : s[j] # x) - 1
    ELSE -1

\* Vec::truncate(len): keeps the first len elements, no effect when len is
\* not smaller than the vector's length.
Truncate(s, len) == IF len >= Len(s) THEN s ELSE SubSeq(s, 1, len)

\* Vec::drain(..n) followed by dropping the drained part: what stays in the
\* vector is everything after its first n elements.
DrainFront(s, n) == SubSeq(s, n + 1, Len(s))

(***************************************************************************)
(* ConsensusState and ConsensusWrite.                                      *)
(***************************************************************************)
ConsensusState(ccs, recent, pending, buried) ==
    [chain_state |-> ccs, recent_l1_blocks |-> recent,
     pending_l2_blocks |-> pending, buried_l1_height |-> buried]

\* The states a Replace write may carry: any buried height, either chain
\* state, no or one recent L1 block and no pending L2 block.
ReplaceStates ==
    {ConsensusState(c, r, <<>>, b) :
        c \in ChainStates, r \in {<<>>, <<1>>}, b \in 0..MaxBuried}

NoWrite == [kind |-> "None", arg |-> 0]

Replace(cs) == [kind |-> "Replace", arg |-> cs]
ReplaceChainState(ccs) == [kind |-> "ReplaceChainState", arg |-> ccs]
AcceptL2Block(blkid) == [kind |-> "AcceptL2Block", arg |-> blkid]
RollbackL1BlocksTo(l1blkid) == [kind |-> "RollbackL1BlocksTo", arg |-> l1blkid]
AcceptL1Block(l1blkid) == [kind |-> "AcceptL1Block", arg |-> l1blkid]
UpdateBuried(new_idx) == [kind |-> "UpdateBuried", arg |-> new_idx]

(***************************************************************************)
(* The arms of the match in apply_writes_to_state, as functions of the     *)
(* state before the write.                                                 *)
(***************************************************************************)
\* Variant: a missing id is not an error (the write is taken as applied).
RollbackNeverPanics(s, l1blkid) == FALSE

\* RollbackL1BlocksTo: the `let Some(pos) = pos else { panic!() }`.
RollbackPanics(s, l1blkid) == Position(s.recent_l1_blocks, l1blkid) = -1

\* Variant: truncate(pos + 1), which keeps the block rolled back to.
RollbackResultKeepsTarget(s, l1blkid) ==
    [s EXCEPT !.recent_l1_blocks =
        Truncate(s.recent_l1_blocks, Position(s.recent_l1_blocks, l1blkid) + 1)]

\* RollbackL1BlocksTo: state.recent_l1_blocks.truncate(pos).
RollbackResult(s, l1blkid) ==
    [s EXCEPT !.recent_l1_blocks =
        Truncate(s.recent_l1_blocks, Position(s.recent_l1_blocks, l1blkid))]

\* AcceptL1Block: state.recent_l1_blocks.push(l1blkid).
AcceptL1Result(s, l1blkid) ==
    [s EXCEPT !.recent_l1_blocks = Append(s.recent_l1_blocks, l1blkid)]

\* AcceptL2Block: state.pending_l2_blocks.push_back(blkid).
AcceptL2Result(s, blkid) ==
    [s EXCEPT !.pending_l2_blocks = Append(s.pending_l2_blocks, blkid)]

\* UpdateBuried: `diff`.  The subtraction is reached only with
\* new_idx > old_idx, so it cannot wrap, and the cast to usize keeps the
\* value on a 64-bit target.
BuriedDiff(s, new_idx) == new_idx - s.buried_l1_height

\* Variant: the first check written `old_idx > new_idx`.
UpdateBuriedPanicsStrict(s, new_idx) ==
    \/ s.buried_l1_height > new_idx
    \/ BuriedDiff(s, new_idx) > Len(s.recent_l1_blocks)

\* UpdateBuried: the two checks that panic.
UpdateBuriedPanics(s, new_idx) ==
    \/ s.buried_l1_height >= new_idx
    \/ BuriedDiff(s, new_idx) > Len(s.recent_l1_blocks)

\* Variant: the blocks are removed from the back (truncate(len - diff)).
UpdateBuriedResultFromBack(s, new_idx) ==
    [s EXCEPT !.recent_l1_blocks =
                  Truncate(s.recent_l1_blocks,
                           Len(s.recent_l1_blocks) - BuriedDiff(s, new_idx)),
              !.buried_l1_height = new_idx]

\* Variant: buried_l1_height is assigned diff instead of new_idx.
UpdateBuriedResultStoresDiff(s, new_idx) ==
    [s EXCEPT !.recent_l1_blocks = DrainFront(s.recent_l1_blocks, BuriedDiff(s, new_idx)),
              !.buried_l1_height = BuriedDiff(s, new_idx)]

\* UpdateBuried: drain(..diff) and the assignment of buried_l1_height.
UpdateBuriedResult(s, new_idx) ==
    [s EXCEPT !.recent_l1_blocks = DrainFront(s.recent_l1_blocks, BuriedDiff(s, new_idx)),
              !.buried_l1_height = new_idx]

(***************************************************************************)
(* State after construction: an empty consensus state at L1 height 0.      *)
(***************************************************************************)
InitWrites ==
    /\ state = ConsensusState("ccs0", <<>>, <<>>, 0)
    /\ write = NoWrite
    /\ panicked = FALSE

(***************************************************************************)
(* One action per arm: one iteration of `for w in writes`.                 *)
(***************************************************************************)
ApplyReplace(cs) ==
    /\ ~panicked
    /\ write' = Replace(cs)
    /\ state' = cs
    /\ UNCHANGED <<panicked, notWriteVars>>

ApplyReplaceChainState(ccs) ==
    /\ ~panicked
    /\ write' = ReplaceChainState(ccs)
    /\ state' = [state EXCEPT !.chain_state = ccs]
    /\ UNCHANGED <<panicked, notWriteVars>>

ApplyRollbackL1BlocksTo(l1blkid) ==
    /\ ~panicked
    /\ write' = RollbackL1BlocksTo(l1blkid)
    /\ IF RollbackPanics(state, l1blkid)
       THEN panicked' = TRUE /\ UNCHANGED state
       ELSE state' = RollbackResult(state, l1blkid) /\ UNCHANGED panicked
    /\ UNCHANGED notWriteVars

ApplyAcceptL1Block(l1blkid) ==
    /\ ~panicked
    /\ Len(state.recent_l1_blocks) < MaxRecent
    /\ write' = AcceptL1Block(l1blkid)
    /\ state' = AcceptL1Result(state, l1blkid)
    /\ UNCHANGED <<panicked, notWriteVars>>

ApplyAcceptL2Block(blkid) ==
    /\ ~panicked
    /\ Len(state.pending_l2_blocks) < MaxPending
    /\ write' = AcceptL2Block(blkid)
    /\ state' = AcceptL2Result(state, blkid)
    /\ UNCHANGED <<panicked, notWriteVars>>

ApplyUpdateBuried(new_idx) ==
    /\ ~panicked
    /\ write' = UpdateBuried(new_idx)
    /\ IF UpdateBuriedPanics(state, new_idx)
       THEN panicked' = TRUE /\ UNCHANGED state
       ELSE state' = UpdateBuriedResult(state, new_idx) /\ UNCHANGED panicked
    /\ UNCHANGED notWriteVars

NextWrites ==
    \/ \E cs \in ReplaceStates : ApplyReplace(cs)
    \/ \E ccs \in ChainStates : ApplyReplaceChainState(ccs)
    \/ \E l1blkid \in L1BlockIds : ApplyRollbackL1BlocksTo(l1blkid)
    \/ \E l1blkid \in L1BlockIds : ApplyAcceptL1Block(l1blkid)
    \/ \E blkid \in L2BlockIds : ApplyAcceptL2Block(blkid)
    \/ \E new_idx \in 0..MaxBuried : ApplyUpdateBuried(new_idx)

(***************************************************************************)
(* duty_dispatch_task and the threads it spawns.                           *)
(***************************************************************************)
\* Sequences over S without repetition, of any length.
DistinctSeqs(S) == {s \in SeqsUpTo(S, Cardinality(S)) : NoDup(s)}

\* DutyBatch::new(ev_idx, duties): the tracker's duties, one entry per duty id.
DutyBatch(idx, duties) == [ev_idx |-> idx, duties |-> duties]

\* A thread running duty_exec_task for a duty.
Worker(id, status) == [duty |-> id, status |-> status]

\* Variant: the dispatched-already check is missing.
ContainsKeyNever(pending, id) == FALSE

\* pending_duties.contains_key(&id).
ContainsKey(pending, id) == pending[id] # 0

\* The `for duty in update.duties()` loop: skip a duty whose id is a key of
\* pending_duties, else spawn a thread and insert its handle under the id.
RECURSIVE DispatchDuties(_, _, _)
DispatchDuties(duties, pending, thr) ==
    IF duties = <<>>
    THEN [pending_duties |-> pending, threads |-> thr]
    ELSE LET id == Head(duties) IN
         IF ContainsKey(pending, id)
         THEN DispatchDuties(Tail(duties), pending, thr)
         ELSE DispatchDuties(Tail(duties),
                             [pending EXCEPT ![id] = Len(thr) + 1],
                             Append(thr, Worker(id, "running")))

\* The threads of duty id with the given status.
WorkersOf(id, status) ==
    {t \in 1..Len(threads) : threads[t].duty = id /\ threads[t].status = status}

InitDuty ==
    /\ ev_idx = 0
    /\ chan = <<>>
    /\ missed = 0
    /\ closed = FALSE
    /\ update = DutyBatch(0, <<>>)
    /\ pending_duties = [id \in DutyIds |-> 0]
    /\ threads = <<>>
    /\ dispatch_pc = "loop"

\* duty_tracker_task publishes a batch: batch_queue.send(batch).  A full
\* channel overwrites its oldest batch, which the receiver then has missed.
SendBatch(duties) ==
    /\ ~closed
    /\ ev_idx < MaxEvIdx
    /\ ev_idx' = ev_idx + 1
    /\ IF Len(chan) = ChanCapacity
       THEN /\ chan' = Append(Tail(chan), DutyBatch(ev_idx + 1, duties))
            /\ missed' = missed + 1
       ELSE /\ chan' = Append(chan, DutyBatch(ev_idx + 1, duties))
            /\ UNCHANGED missed
    /\ UNCHANGED <<closed, update, pending_duties, threads, dispatch_pc, notDutyVars>>

\* duty_tracker_task returns and drops batch_queue.
DropSender ==
    /\ ~closed
    /\ closed' = TRUE
    /\ UNCHANGED <<ev_idx, chan, missed, update, pending_duties, threads, dispatch_pc,
                   notDutyVars>>

\* blocking_recv() = Ok(u): the batch is dispatched.
DispatchBatch ==
    /\ dispatch_pc = "loop"
    /\ missed = 0
    /\ chan # <<>>
    /\ update' = Head(chan)
    /\ chan' = Tail(chan)
    /\ LET r == DispatchDuties(Head(chan).duties, pending_duties, threads) IN
          /\ pending_duties' = r.pending_duties
          /\ threads' = r.threads
    /\ UNCHANGED <<ev_idx, missed, closed, dispatch_pc, notDutyVars>>

\* blocking_recv() = Err(Lagged(skipped)): warn and continue.
DispatchLagged ==
    /\ dispatch_pc = "loop"
    /\ missed > 0
    /\ missed' = 0
    /\ UNCHANGED <<ev_idx, chan, closed, update, pending_duties, threads, dispatch_pc, notDutyVars>>

\* Variant: the Closed arm warns and continues like the Lagged arm.
DispatchClosedContinues ==
    /\ dispatch_pc = "loop"
    /\ missed = 0
    /\ chan = <<>>
    /\ closed
    /\ UNCHANGED vars

\* blocking_recv() = Err(Closed): break, and the task returns.
DispatchClosed ==
    /\ dispatch_pc = "loop"
    /\ missed = 0
    /\ chan = <<>>
    /\ closed
    /\ dispatch_pc' = "exited"
    /\ UNCHANGED <<ev_idx, chan, missed, closed, update, pending_duties, threads,
                   notDutyVars>>

\* duty_exec_task: perform_duty returned Ok, the thread ends.
WorkerCompletes(t) ==
    /\ threads[t].status = "running"
    /\ threads' = [threads EXCEPT ![t].status = "completed"]
    /\ UNCHANGED <<ev_idx, chan, missed, closed, update, pending_duties, dispatch_pc,
                   notDutyVars>>

\* Variant: the error of perform_duty stops the dispatcher too.
WorkerFailsStopsDispatcher(t) ==
    /\ threads[t].status = "running"
    /\ threads' = [threads EXCEPT ![t].status = "failed"]
    /\ dispatch_pc' = "exited"
    /\ UNCHANGED <<ev_idx, chan, missed, closed, update, pending_duties, notDutyVars>>

\* duty_exec_task: perform_duty returned Err, it is logged and the thread ends.
WorkerFails(t) ==
    /\ threads[t].status = "running"
    /\ threads' = [threads EXCEPT ![t].status = "failed"]
    /\ UNCHANGED <<ev_idx, chan, missed, closed, update, pending_duties, dispatch_pc,
                   notDutyVars>>

NextDuty ==
    \/ \E duties \in DistinctSeqs(DutyIds) : SendBatch(duties)
    \/ DropSender
    \/ DispatchBatch
    \/ DispatchLagged
    \/ DispatchClosed
    \/ \E t \in 1..Len(threads) : WorkerCompletes(t)
    \/ \E t \in 1..Len(threads) : WorkerFails(t)

(***************************************************************************)
(* duty_tracker_task.                                                      *)
(***************************************************************************)
\* DutyTracker::update: the duties whose scope is finalized or expired are
\* removed, the others keep their order.
TrackerUpdate(tracker, expired) ==
    LET keep == {i \in 1..Len(tracker) : tracker[i] \notin expired}
        F[i \in 0..Len(tracker)] ==
            IF i = 0 THEN <<>>
            ELSE IF i \in keep THEN Append(F[i - 1], tracker[i]) ELSE F[i - 1]
    IN F[Len(tracker)]

\* DutyTracker::add_duties: the new duties whose id is not present yet are
\* inserted, in order.
RECURSIVE AddDuties(_, _)
AddDuties(tracker, new_duties) ==
    IF new_duties = <<>> THEN tracker
    ELSE AddDuties(IF Head(new_duties) \in Range(tracker)
                   THEN tracker
                   ELSE Append(tracker, Head(new_duties)),
                   Tail(new_duties))

\* update_tracker returning Ok: tracker.update, then tracker.add_duties.
UpdateTrackerOk(tracker, expired, new_duties) ==
    AddDuties(TrackerUpdate(tracker, expired), new_duties)

InitTracker ==
    /\ notif_idx = 0
    /\ notif_chan = <<>>
    /\ notif_missed = 0
    /\ notif_closed = FALSE
    /\ duties_tracker = <<>>
    /\ batch_queue = <<>>
    /\ tracker_pc = "loop"
    /\ update_result = "none"

\* The CSM driver publishes ConsensusUpdateNotif{ev_idx, new_state}.  A full
\* channel overwrites its oldest notification.
SendNotif ==
    /\ ~notif_closed
    /\ notif_idx < MaxEvIdx
    /\ notif_idx' = notif_idx + 1
    /\ IF Len(notif_chan) = ChanCapacity
       THEN /\ notif_chan' = Append(Tail(notif_chan), notif_idx + 1)
            /\ notif_missed' = notif_missed + 1
       ELSE /\ notif_chan' = Append(notif_chan, notif_idx + 1)
            /\ UNCHANGED notif_missed
    /\ UNCHANGED <<notif_closed, duties_tracker, batch_queue, tracker_pc,
                   update_result, notTrackerVars>>

\* The CSM driver drops the notification sender.
DropNotifSender ==
    /\ ~notif_closed
    /\ notif_closed' = TRUE
    /\ UNCHANGED <<notif_idx, notif_chan, notif_missed, duties_tracker, batch_queue,
                   tracker_pc, update_result, notTrackerVars>>

\* blocking_recv() = Ok(u) and update_tracker returns Ok: the tracker is
\* updated and the new batch is published.
TrackerUpdated(expired, new_duties) ==
    /\ tracker_pc = "loop"
    /\ notif_missed = 0
    /\ notif_chan # <<>>
    /\ notif_chan' = Tail(notif_chan)
    /\ duties_tracker' = UpdateTrackerOk(duties_tracker, expired, new_duties)
    /\ batch_queue' = Append(batch_queue, DutyBatch(Head(notif_chan), duties_tracker'))
    /\ update_result' = "Ok"
    /\ UNCHANGED <<notif_idx, notif_missed, notif_closed, tracker_pc,
                   notTrackerVars>>

\* Variant: a failed update_tracker goes on with the loop without publishing.
TrackerUpdateFailedSkipsBatch ==
    /\ tracker_pc = "loop"
    /\ notif_missed = 0
    /\ notif_chan # <<>>
    /\ notif_chan' = Tail(notif_chan)
    /\ update_result' = "Err"
    /\ UNCHANGED <<notif_idx, notif_missed, notif_closed, duties_tracker, batch_queue,
                   tracker_pc, notTrackerVars>>

\* blocking_recv() = Ok(u) and update_tracker returns Err (before it touches
\* the tracker): the error is logged and the batch is published all the same.
TrackerUpdateFailed ==
    /\ tracker_pc = "loop"
    /\ notif_missed = 0
    /\ notif_chan # <<>>
    /\ notif_chan' = Tail(notif_chan)
    /\ batch_queue' = Append(batch_queue, DutyBatch(Head(notif_chan), duties_tracker))
    /\ update_result' = "Err"
    /\ UNCHANGED <<notif_idx, notif_missed, notif_closed, duties_tracker,
                   tracker_pc, notTrackerVars>>

\* blocking_recv() = Err(Lagged(skipped)): warn and continue.
TrackerLagged ==
    /\ tracker_pc = "loop"
    /\ notif_missed > 0
    /\ notif_missed' = 0
    /\ UNCHANGED <<notif_idx, notif_chan, notif_closed, duties_tracker, batch_queue,
                   tracker_pc, update_result, notTrackerVars>>

\* blocking_recv() = Err(Closed): break, and the task returns.
TrackerClosed ==
    /\ tracker_pc = "loop"
    /\ notif_missed = 0
    /\ notif_chan = <<>>
    /\ notif_closed
    /\ tracker_pc' = "exited"
    /\ UNCHANGED <<notif_idx, notif_chan, notif_missed, notif_closed, duties_tracker,
                   batch_queue, update_result, notTrackerVars>>

(***************************************************************************)
(* bitcoin_data_handler.                                                   *)
(***************************************************************************)
BlockNums == 1..MaxBlockNum
BlockHashes == {"a", "b"}
\* relevant_txn_indices of a block of three transactions.
RelevantTxnIndices == {<<>>, <<1>>, <<0, 2>>}

BlockData ==
    [block_num : BlockNums, blkid : BlockHashes, prev_blkid : BlockHashes,
     relevant_txn_indices : RelevantTxnIndices]

NoManifest == [blkid |-> "none", l1txs |-> <<>>]

\* detect_reorg: the manifest stored at block_num - 1 exists and is not the
\* block's parent.
ReorgDetected(db, blockdata) ==
    /\ blockdata.block_num > 1
    /\ db[blockdata.block_num - 1] # NoManifest
    /\ db[blockdata.block_num - 1].blkid # blockdata.prev_blkid

\* l1db.revert_to_height(h): the manifests above h are removed.
RevertToHeight(db, h) ==
    [n \in BlockNums |-> IF n > h THEN NoManifest ELSE db[n]]

\* The positions of the proofs the handler builds: generate_l1_tx(i, block)
\* is called with the index i that enumerate() gives the entry.
L1TxPositions(relevant) == [k \in 1..Len(relevant) |-> k - 1]

\* l1db.put_block_data(block_num, manifest, l1txs).
PutBlockData(db, blockdata) ==
    [db EXCEPT ![blockdata.block_num] =
        [blkid |-> blockdata.blkid,
         l1txs |-> L1TxPositions(blockdata.relevant_txn_indices)]]

\* SyncEvent::L1Block(block_num, blkid).
L1BlockEvent(blockdata) == <<"L1Block", blockdata.block_num, blockdata.blkid>>

InitHandler ==
    /\ rx_queue = <<>>
    /\ rx_sent = 0
    /\ rx_closed = FALSE
    /\ l1db = [n \in BlockNums |-> NoManifest]
    /\ sync_events = <<>>
    /\ warned_none = FALSE
    /\ handler_pc = "loop"

\* bitcoin_data_reader sends a BlockData; a full channel makes it wait.
ReaderSends(blockdata) ==
    /\ ~rx_closed
    /\ rx_sent < MaxBlocks
    /\ Len(rx_queue) < RxCapacity
    /\ rx_queue' = Append(rx_queue, blockdata)
    /\ rx_sent' = rx_sent + 1
    /\ UNCHANGED <<rx_closed, l1db, sync_events, warned_none, handler_pc, notHandlerVars>>

\* The reader task ends and drops the sender.
ReaderCloses ==
    /\ ~rx_closed
    /\ rx_closed' = TRUE
    /\ UNCHANGED <<rx_queue, rx_sent, l1db, sync_events, warned_none, handler_pc,
                   notHandlerVars>>

\* recv() = Some(blockdata), detect_reorg = Some(reorg_block_num): the
\* database is reverted and the loop continues.
HandleReorg(reorg_block_num) ==
    /\ handler_pc = "loop"
    /\ rx_queue # <<>>
    /\ ReorgDetected(l1db, Head(rx_queue))
    /\ reorg_block_num < Head(rx_queue).block_num - 1
    /\ rx_queue' = Tail(rx_queue)
    /\ l1db' = RevertToHeight(l1db, reorg_block_num)
    /\ UNCHANGED <<rx_sent, rx_closed, sync_events, warned_none, handler_pc, notHandlerVars>>

\* recv() = Some(blockdata), detect_reorg = None: the manifest and the
\* proofs are stored, then the L1Block sync event is written.
HandleBlock ==
    /\ handler_pc = "loop"
    /\ rx_queue # <<>>
    /\ ~ReorgDetected(l1db, Head(rx_queue))
    /\ rx_queue' = Tail(rx_queue)
    /\ l1db' = PutBlockData(l1db, Head(rx_queue))
    /\ sync_events' = Append(sync_events, L1BlockEvent(Head(rx_queue)))
    /\ UNCHANGED <<rx_sent, rx_closed, warned_none, handler_pc, notHandlerVars>>

\* Variant: the L1Block event is written although put_block_data failed.
HandleDbErrorWritesEvent ==
    /\ handler_pc = "loop"
    /\ rx_queue # <<>>
    /\ rx_queue' = Tail(rx_queue)
    /\ sync_events' = Append(sync_events, L1BlockEvent(Head(rx_queue)))
    /\ handler_pc' = "failed"
    /\ UNCHANGED <<rx_sent, rx_closed, l1db, warned_none, notHandlerVars>>

\* recv() = Some(blockdata) and detect_reorg, revert_to_height or
\* put_block_data returns Err: `?` returns it, nothing was stored.
HandleDbError ==
    /\ handler_pc = "loop"
    /\ rx_queue # <<>>
    /\ rx_queue' = Tail(rx_queue)
    /\ handler_pc' = "failed"
    /\ UNCHANGED <<rx_sent, rx_closed, l1db, sync_events, warned_none, notHandlerVars>>

\* recv() = Some(blockdata), put_block_data succeeds and write_sync_event
\* returns Err: `?` returns it, the manifest stays stored.
HandleSyncEventError ==
    /\ handler_pc = "loop"
    /\ rx_queue # <<>>
    /\ ~ReorgDetected(l1db, Head(rx_queue))
    /\ rx_queue' = Tail(rx_queue)
    /\ l1db' = PutBlockData(l1db, Head(rx_queue))
    /\ handler_pc' = "failed"
    /\ UNCHANGED <<rx_sent, rx_closed, sync_events, warned_none, notHandlerVars>>

\* recv() = None (the channel is closed and empty): the else branch logs a
\* warning and the loop goes round again.
HandleNone ==
    /\ handler_pc = "loop"
    /\ rx_queue = <<>>
    /\ rx_closed
    /\ warned_none' = TRUE
    /\ UNCHANGED <<rx_queue, rx_sent, rx_closed, l1db, sync_events, handler_pc, notHandlerVars>>

NextHandler ==
    \/ \E blockdata \in BlockData : ReaderSends(blockdata)
    \/ ReaderCloses
    \/ \E reorg_block_num \in 0..MaxBlockNum : HandleReorg(reorg_block_num)
    \/ HandleBlock
    \/ HandleDbError
    \/ HandleSyncEventError
    \/ HandleNone

(***************************************************************************)
(* sign_block and poll_status_loop.                                        *)
(***************************************************************************)
\* Variant: a poll that timed out is taken for a finished payload.
AfterPollIgnoresTimeout(payload_data, put_ok) ==
    IF put_ok
    THEN [sign_result |-> "Ok", stored |-> 1]
    ELSE [sign_result |-> "Err(db)", stored |-> 0]

\* sign_block once poll_status_loop has returned Ok(payload_data): None is
\* the timeout error; with Some the block is assembled and put_block_data
\* stores it (put_ok) or returns Err.
AfterPoll(payload_data, put_ok) ==
    IF payload_data = "None"
    THEN [sign_result |-> "Err(EL block assembly timed out)", stored |-> 0]
    ELSE IF put_ok
         THEN [sign_result |-> "Ok", stored |-> 1]
         ELSE [sign_result |-> "Err(db)", stored |-> 0]

\* `time::Instant::now() - start > timeout`.
TimedOut(now_minus_start) == now_minus_start > TimeoutMs

\* Nothing in sign_block or its worker sends the consensus state machine
\* anything (`// TODO push the block into the CSM and publish it`).
InitCsm == csm_l2_events = 0

InitSign ==
    /\ sign_pc = "start"
    /\ sign_result = "none"
    /\ elapsed = 0
    /\ polled = {}
    /\ blocks_at_slot = 0

\* sign_block is called for the slot once more (the SignBlock duty is
\* executed again, e.g. after a restart of the node).
SignCalledAgain ==
    /\ sign_pc = "done"
    /\ sign_pc' = "start"
    /\ sign_result' = "none"
    /\ elapsed' = 0
    /\ polled' = {}
    /\ UNCHANGED <<blocks_at_slot, notSignVars>>

\* Variant: the block found is ignored and a new payload is prepared.
SignFindsBlockRebuilds ==
    /\ sign_pc = "start"
    /\ blocks_at_slot > 0
    /\ sign_pc' = "polling"
    /\ elapsed' = 0
    /\ UNCHANGED <<sign_result, polled, blocks_at_slot, notSignVars>>

\* get_blocks_at_height(slot) is not empty: warn and return Ok.
SignFindsBlock ==
    /\ sign_pc = "start"
    /\ blocks_at_slot > 0
    /\ sign_pc' = "done"
    /\ sign_result' = "Ok"
    /\ UNCHANGED <<elapsed, polled, blocks_at_slot, notSignVars>>

\* get_blocks_at_height, get_last_checkpoint_idx or get_state_checkpoint
\* returns Err: `?` returns it.
SignDbError ==
    /\ sign_pc = "start"
    /\ sign_pc' = "done"
    /\ sign_result' = "Err(db)"
    /\ UNCHANGED <<elapsed, polled, blocks_at_slot, notSignVars>>

\* get_state_checkpoint returns Ok(None): the expect() panics the worker.
SignCheckpointMissing ==
    /\ sign_pc = "start"
    /\ blocks_at_slot = 0
    /\ sign_pc' = "done"
    /\ sign_result' = "panicked"
    /\ UNCHANGED <<elapsed, polled, blocks_at_slot, notSignVars>>

\* engine.prepare_payload returns Err: `?` returns it.
SignPrepareFails ==
    /\ sign_pc = "start"
    /\ blocks_at_slot = 0
    /\ sign_pc' = "done"
    /\ sign_result' = "Err(engine)"
    /\ UNCHANGED <<elapsed, polled, blocks_at_slot, notSignVars>>

\* engine.prepare_payload returns the job; poll_status_loop takes `start`.
SignPreparesPayload ==
    /\ sign_pc = "start"
    /\ blocks_at_slot = 0
    /\ sign_pc' = "polling"
    /\ elapsed' = 0
    /\ UNCHANGED <<sign_result, polled, blocks_at_slot, notSignVars>>

\* One round of poll_status_loop in which get_payload_status answers
\* Working or Invalid: sleep, poll, then the timeout check; on a timeout
\* the loop breaks, Ok(None) is returned and sign_block goes on with it.
PollNotReady(oversleep, status) ==
    /\ sign_pc = "polling"
    /\ elapsed' = elapsed + WaitMs + oversleep
    /\ polled' = polled \cup {status}
    /\ IF TimedOut(elapsed')
       THEN /\ sign_pc' = "done"
            /\ sign_result' = AfterPoll("None", TRUE).sign_result
            /\ blocks_at_slot' = blocks_at_slot + AfterPoll("None", TRUE).stored
       ELSE UNCHANGED <<sign_pc, sign_result, blocks_at_slot>>
    /\ UNCHANGED notSignVars

\* A round in which get_payload_status answers Ready(pl): Ok(Some(pl)) is
\* returned and sign_block assembles and stores the block.
PollReady(oversleep, put_ok) ==
    /\ sign_pc = "polling"
    /\ elapsed' = elapsed + WaitMs + oversleep
    /\ polled' = polled \cup {"Ready"}
    /\ sign_pc' = "done"
    /\ sign_result' = AfterPoll("Some", put_ok).sign_result
    /\ blocks_at_slot' = blocks_at_slot + AfterPoll("Some", put_ok).stored
    /\ UNCHANGED notSignVars

\* A round in which get_payload_status returns Err: `?` returns it from
\* poll_status_loop and from sign_block.
PollEngineError(oversleep) ==
    /\ sign_pc = "polling"
    /\ elapsed' = elapsed + WaitMs + oversleep
    /\ polled' = polled \cup {"Err"}
    /\ sign_pc' = "done"
    /\ sign_result' = "Err(engine)"
    /\ UNCHANGED <<blocks_at_slot, notSignVars>>

Oversleeps == {0, MaxOversleepMs}

\* The answers of get_payload_status other than Ready(pl).
NotReadyStatuses == {"Working", "Invalid"}

NextSign ==
    \/ SignCalledAgain
    \/ SignFindsBlock
    \/ SignDbError
    \/ SignCheckpointMissing
    \/ SignPrepareFails
    \/ SignPreparesPayload
    \/ \E oversleep \in Oversleeps, status \in NotReadyStatuses :
           PollNotReady(oversleep, status)
    \/ \E oversleep \in Oversleeps, put_ok \in BOOLEAN : PollReady(oversleep, put_ok)
    \/ \E oversleep \in Oversleeps : PollEngineError(oversleep)

\* What the thread of sign_block does by itself.
SignBlockSteps ==
    \/ SignFindsBlock
    \/ SignDbError
    \/ SignCheckpointMissing
    \/ SignPrepareFails
    \/ SignPreparesPayload
    \/ \E oversleep \in Oversleeps, status \in NotReadyStatuses :
           PollNotReady(oversleep, status)
    \/ \E oversleep \in Oversleeps, put_ok \in BOOLEAN : PollReady(oversleep, put_ok)
    \/ \E oversleep \in Oversleeps : PollEngineError(oversleep)

(***************************************************************************)
(* StubController::prepare_payload.                                        *)
(***************************************************************************)
Callers == 1..MaxCallers

\* State::new(): next_idx starts at 1.
FirstIdx == 1

\* Variant: the state is not behind a mutex, lock() never waits.
LockNeverWaits(holder) == TRUE

\* self.state.lock() returns once no other thread holds the guard.
LockAcquired(holder) == holder = 0

InitStub ==
    /\ next_idx = FirstIdx
    /\ payload_jobs = {}
    /\ mutex = 0
    /\ call_pc = [c \in Callers |-> "idle"]
    /\ call_idx = [c \in Callers |-> 0]
    /\ calls = 0
    /\ returned = <<>>

\* A thread calls prepare_payload and waits for the lock.
CallPreparePayload(c) ==
    /\ call_pc[c] = "idle"
    /\ calls < MaxCalls
    /\ calls' = calls + 1
    /\ call_pc' = [call_pc EXCEPT ![c] = "lock"]
    /\ UNCHANGED <<next_idx, payload_jobs, mutex, call_idx, returned, notStubVars>>

\* let mut state = self.state.lock().unwrap();
LockState(c) ==
    /\ call_pc[c] = "lock"
    /\ LockAcquired(mutex)
    /\ mutex' = c
    /\ call_pc' = [call_pc EXCEPT ![c] = "read"]
    /\ UNCHANGED <<next_idx, payload_jobs, call_idx, calls, returned, notStubVars>>

\* let idx = state.next_idx;
ReadNextIdx(c) ==
    /\ call_pc[c] = "read"
    /\ call_idx' = [call_idx EXCEPT ![c] = next_idx]
    /\ call_pc' = [call_pc EXCEPT ![c] = "incr"]
    /\ UNCHANGED <<next_idx, payload_jobs, mutex, calls, returned, notStubVars>>

\* state.next_idx += 1;
IncrNextIdx(c) ==
    /\ call_pc[c] = "incr"
    /\ next_idx' = next_idx + 1
    /\ call_pc' = [call_pc EXCEPT ![c] = "insert"]
    /\ UNCHANGED <<payload_jobs, mutex, call_idx, calls, returned, notStubVars>>

\* state.payload_jobs.insert(idx, time::Instant::now());
InsertJob(c) ==
    /\ call_pc[c] = "insert"
    /\ payload_jobs' = payload_jobs \cup {call_idx[c]}
    /\ call_pc' = [call_pc EXCEPT ![c] = "return"]
    /\ UNCHANGED <<next_idx, mutex, call_idx, calls, returned, notStubVars>>

\* Ok(idx): the guard is dropped and the call returns.
ReturnIdx(c) ==
    /\ call_pc[c] = "return"
    /\ returned' = Append(returned, call_idx[c])
    /\ mutex' = IF mutex = c THEN 0 ELSE mutex
    /\ call_pc' = [call_pc EXCEPT ![c] = "idle"]
    /\ UNCHANGED <<next_idx, payload_jobs, call_idx, calls, notStubVars>>

NextStub ==
    \/ \E c \in Callers : CallPreparePayload(c)
    \/ \E c \in Callers : LockState(c)
    \/ \E c \in Callers : ReadNextIdx(c)
    \/ \E c \in Callers : IncrNextIdx(c)
    \/ \E c \in Callers : InsertJob(c)
    \/ \E c \in Callers : ReturnIdx(c)

(***************************************************************************)
(* AdminServerImpl::submit_checkpoint_proof, for one checkpoint idx.       *)
(***************************************************************************)
Submitters == 1..MaxSubmitters
\* The proofbytes and the transition bytes a caller may submit; "garbage"
\* is what borsh::from_slice cannot parse.
SubmittedProofs == {"valid", "invalid"}
SubmittedTransitions == {"t1", "garbage"}

CheckpointEntry(status, proof, transition) ==
    [proving_status |-> status, proof |-> proof, checkpoint_transition |-> transition]

\* get_checkpoint(idx) = Ok(None).
NoCheckpoint == CheckpointEntry("none", "empty", "none")

NoCall == [proofbytes |-> "none", transition |-> "none", entry |-> NoCheckpoint,
           result |-> "none"]

\* verify_proof(&checkpoint, params): the proof inside the checkpoint is
\* verified; empty_ok is what the verifier makes of an empty proof.
VerifyProof(batch_checkpoint, empty_ok) ==
    CASE batch_checkpoint.proof = "valid" -> TRUE
      [] batch_checkpoint.proof = "invalid" -> FALSE
      [] OTHER -> empty_ok

\* entry.clone().into_batch_checkpoint(): the checkpoint verified is built
\* from the entry read from the database, not from the submitted bytes.
IntoBatchCheckpoint(entry) == [proof |-> entry.proof]

\* The checks of a call between get_checkpoint and the put, in the order of
\* the code: the result, "put" when the call goes on to write the entry.
SubmitChecks(entry, transition, empty_ok) ==
    IF entry = NoCheckpoint THEN "MissingCheckpointInDb"
    ELSE IF verify_proofs /\ ~VerifyProof(IntoBatchCheckpoint(entry), empty_ok)
         THEN "InvalidProof"
    ELSE IF entry.proving_status # "PendingProof" THEN "ProofAlreadyCreated"
    ELSE IF transition = "garbage" THEN "parse checkpoint state"
    ELSE "put"

InitProof ==
    /\ verify_proofs = FALSE
    /\ checkpoint = NoCheckpoint
    /\ sub_pc = [c \in Submitters |-> "idle"]
    /\ sub_entry = [c \in Submitters |-> NoCheckpoint]
    /\ sub_call = [c \in Submitters |-> NoCall]
    /\ last_submit = 1
    /\ submits = 0

\* The node is started with verify_proofs = true in its rollup params.
StartWithVerifyProofs ==
    /\ ~verify_proofs
    /\ submits = 0
    /\ checkpoint = NoCheckpoint
    /\ verify_proofs' = TRUE
    /\ UNCHANGED <<checkpoint, sub_pc, sub_entry, sub_call, last_submit, submits,
                   notProofVars>>

\* The checkpoint manager creates the entry of idx, pending its proof.
CreateCheckpoint ==
    /\ checkpoint = NoCheckpoint
    /\ checkpoint' = CheckpointEntry("PendingProof", "empty", "none")
    /\ UNCHANGED <<verify_proofs, sub_pc, sub_entry, sub_call, last_submit, submits,
                   notProofVars>>

\* A call up to its put: get_checkpoint, verify_proof if verify_proofs is
\* set, the status check, the parse of the transition, and the changes to
\* the local entry.
SubmitReadsEntry(c, proofbytes, transition, empty_ok) ==
    /\ sub_pc[c] = "idle"
    /\ submits < MaxSubmits
    /\ submits' = submits + 1
    /\ last_submit' = c
    /\ LET result == SubmitChecks(checkpoint, transition, empty_ok) IN
          /\ sub_call' = [sub_call EXCEPT ![c] =
                 [proofbytes |-> proofbytes, transition |-> transition,
                  entry |-> checkpoint, result |-> result]]
          /\ IF result = "put"
             THEN /\ sub_pc' = [sub_pc EXCEPT ![c] = "put"]
                  /\ sub_entry' = [sub_entry EXCEPT ![c] =
                         CheckpointEntry("ProofReady", proofbytes, transition)]
             ELSE UNCHANGED <<sub_pc, sub_entry>>
    /\ UNCHANGED <<verify_proofs, checkpoint, notProofVars>>

\* get_checkpoint returns Err: Error::Other.
SubmitReadFails(c, proofbytes, transition) ==
    /\ sub_pc[c] = "idle"
    /\ submits < MaxSubmits
    /\ submits' = submits + 1
    /\ last_submit' = c
    /\ sub_call' = [sub_call EXCEPT ![c] =
           [proofbytes |-> proofbytes, transition |-> transition,
            entry |-> NoCheckpoint, result |-> "Other"]]
    /\ UNCHANGED <<verify_proofs, checkpoint, sub_pc, sub_entry, notProofVars>>

\* put_checkpoint_and_notify(idx, entry) succeeds: Ok(()).
SubmitPutsEntry(c) ==
    /\ sub_pc[c] = "put"
    /\ checkpoint' = sub_entry[c]
    /\ sub_call' = [sub_call EXCEPT ![c].result = "Ok"]
    /\ sub_pc' = [sub_pc EXCEPT ![c] = "idle"]
    /\ UNCHANGED <<verify_proofs, sub_entry, last_submit, submits, notProofVars>>

\* put_checkpoint_and_notify returns Err: Error::Other.
SubmitPutFails(c) ==
    /\ sub_pc[c] = "put"
    /\ sub_call' = [sub_call EXCEPT ![c].result = "Other"]
    /\ sub_pc' = [sub_pc EXCEPT ![c] = "idle"]
    /\ UNCHANGED <<verify_proofs, checkpoint, sub_entry, last_submit, submits, notProofVars>>

NextProof ==
    \/ StartWithVerifyProofs
    \/ CreateCheckpoint
    \/ \E c \in Submitters, proofbytes \in SubmittedProofs,
          transition \in SubmittedTransitions, empty_ok \in BOOLEAN :
           SubmitReadsEntry(c, proofbytes, transition, empty_ok)
    \/ \E c \in Submitters, proofbytes \in SubmittedProofs,
          transition \in SubmittedTransitions :
           SubmitReadFails(c, proofbytes, transition)
    \/ \E c \in Submitters : SubmitPutsEntry(c)
    \/ \E c \in Submitters : SubmitPutFails(c)

(***************************************************************************)
(* AlpenRpcImpl::get_recent_block_headers.                                 *)
(***************************************************************************)
StoredBlockIds == 1..MaxStoredBlocks
\* Buf32::zero(), the parent id of a block without parent.
ZeroBlkid == 0
BlockIdxs == 0..(MaxStoredBlocks - 1)
Counts == 0..(FetchLimit + 1)

NoBlock == [blockidx |-> -1, parent |-> ZeroBlkid]

\* conv_blk_header_to_rpc(l2_blk.header()) of the block stored under blkid.
BlockHeader(store, blkid) ==
    [block_id |-> blkid, block_idx |-> store[blkid].blockidx,
     prev_block |-> store[blkid].parent]

\* Variant: a count equal to the limit is refused too.
ExceedsFetchLimitInclusive(count) == count >= FetchLimit

\* `count > fetch_limit`.
ExceedsFetchLimit(count) == count > FetchLimit

\* The while loop: fetch cur_blkid (an error if the store does not have it),
\* push its header, go to its parent, break after block_idx 0 or a zero
\* parent.
RECURSIVE CollectHeaders(_, _, _, _)
CollectHeaders(store, output, cur_blkid, count) ==
    IF ~(Len(output) < count)
    THEN [result |-> "Ok", headers |-> output]
    ELSE IF cur_blkid \notin StoredBlockIds \/ store[cur_blkid] = NoBlock
    THEN [result |-> "MissingL2Block", headers |-> <<>>]
    ELSE LET pushed == Append(output, BlockHeader(store, cur_blkid))
             parent == store[cur_blkid].parent
         IN IF store[cur_blkid].blockidx = 0 \/ parent = ZeroBlkid
            THEN [result |-> "Ok", headers |-> pushed]
            ELSE CollectHeaders(store, pushed, parent, count)

\* get_recent_block_headers(count) when no database call returns Err.
RecentBlockHeaders(store, sync, count) ==
    IF sync = <<>>
    THEN [result |-> "ClientNotStarted", headers |-> <<>>]
    ELSE IF ExceedsFetchLimit(count)
    THEN [result |-> "FetchLimitReached", headers |-> <<>>]
    ELSE CollectHeaders(store, <<>>, sync[1], count)

HdrCall(count, r) == [count |-> count, result |-> r.result, headers |-> r.headers]

InitHeaders ==
    /\ l2_store = [id \in StoredBlockIds |-> NoBlock]
    /\ client_sync = <<>>
    /\ hdr_call = HdrCall(0, [result |-> "none", headers |-> <<>>])

\* A block is stored: l2_store.put_block_data.
PutL2Block(blkid, blockidx, parent) ==
    /\ l2_store[blkid] = NoBlock
    /\ l2_store' = [l2_store EXCEPT ![blkid] = [blockidx |-> blockidx, parent |-> parent]]
    /\ UNCHANGED <<client_sync, hdr_call, notHeadersVars>>

\* The client state gets its sync state, or a new chain tip.
SetChainTip(blkid) ==
    /\ client_sync # <<blkid>>
    /\ client_sync' = <<blkid>>
    /\ UNCHANGED <<l2_store, hdr_call, notHeadersVars>>

\* get_recent_block_headers(count).
GetRecentBlockHeaders(count) ==
    /\ hdr_call' = HdrCall(count, RecentBlockHeaders(l2_store, client_sync, count))
    /\ UNCHANGED <<l2_store, client_sync, notHeadersVars>>

\* get_recent_block_headers(count) when fetch_l2blk returns a database
\* error.
GetRecentBlockHeadersDbError(count) ==
    /\ RecentBlockHeaders(l2_store, client_sync, count).result \in {"Ok", "MissingL2Block"}
    /\ count > 0
    /\ hdr_call' = HdrCall(count, [result |-> "Other", headers |-> <<>>])
    /\ UNCHANGED <<l2_store, client_sync, notHeadersVars>>

NextHeaders ==
    \/ \E blkid \in StoredBlockIds, blockidx \in BlockIdxs,
          parent \in StoredBlockIds \cup {ZeroBlkid} :
           PutL2Block(blkid, blockidx, parent)
    \/ \E blkid \in StoredBlockIds : SetChainTip(blkid)
    \/ \E count \in Counts : GetRecentBlockHeaders(count)
    \/ \E count \in Counts : GetRecentBlockHeadersDbError(count)

(***************************************************************************)
(* get_cohashes_from_txids and generate_l1_tx.                             *)
(* A hash is a byte array; the model keeps the bytes as a sequence of      *)
(* numbers.  The txid of transaction k is the two bytes <<k, 0>>; the      *)
(* sha256d of a 64-byte pair is the pair between the marks -1 and -2, so   *)
(* that different pairs have different hashes.                             *)
(***************************************************************************)
TxNums == 1..MaxTxs

\* tx.compute_txid().to_byte_array().
TxidBytes(k) == <<k, 0>>

\* The txid lists of the blocks: transactions in any order, none twice.
TxidLists == {[k \in 1..Len(s) |-> TxidBytes(s[k])] : s \in DistinctSeqs(TxNums) \ {<<>>}}

\* item.reverse().
Reverse(bytes) == [k \in 1..Len(bytes) |-> bytes[Len(bytes) + 1 - k]]

\* sha256d::Hash::hash(a || b).
Sha256d(a, b) == <<-1>> \o a \o b \o <<-2>>

\* `if len % 2 != 0 { curr_level.push(curr_level[len - 1]) }`.
DuplicateLastIfOdd(level) ==
    IF Len(level) % 2 # 0 THEN Append(level, level[Len(level)]) ELSE level

\* curr_level.chunks(2).map(|[a, b]| sha256d(a || b)).
PairwiseHash(level) ==
    [k \in 1..(Len(level) \div 2) |-> Sha256d(level[2 * k - 1], level[2 * k])]

\* Variant: the proof item is the node itself, not its sibling.
ProofItemIndexOwn(curr_index) == curr_index

\* proof_item_index: the sibling of curr_index.
ProofItemIndex(curr_index) ==
    IF curr_index % 2 = 0 THEN curr_index + 1 ELSE curr_index - 1

\* Variant: the loop stops at a level of two nodes.
LevelHasSiblingsAboveTwo(curr_level) == Len(curr_level) > 2

\* `while curr_level.len() > 1`.
LevelHasSiblings(curr_level) == Len(curr_level) > 1

\* The while loop of get_cohashes_from_txids (indices count from 0).
RECURSIVE CohashesLoop(_, _)
CohashesLoop(curr_level, curr_index) ==
    IF ~LevelHasSiblings(curr_level)
    THEN <<>>
    ELSE LET level == DuplicateLastIfOdd(curr_level)
             proof_item == Reverse(level[ProofItemIndex(curr_index) + 1])
         IN <<proof_item>> \o CohashesLoop(PairwiseHash(level), curr_index \div 2)

\* The assert! of both functions: index < txids.len().
IndexInRange(txids, index) == index < Len(txids)

\* get_cohashes_from_txids(txids, index), for an index in range.
GetCohashesFromTxids(txids, index) == CohashesLoop(txids, index)

\* The Merkle root of a txid list, the last entry duplicated on odd levels.
RECURSIVE MerkleRoot(_)
MerkleRoot(level) ==
    IF Len(level) = 1 THEN level[1]
    ELSE MerkleRoot(PairwiseHash(DuplicateLastIfOdd(level)))

\* A leaf folded with an inclusion path: the sibling goes to the right when
\* the index at the level is even, to the left when odd; the index is
\* halved per level.
RECURSIVE FoldPath(_, _, _)
FoldPath(node, path, index) ==
    IF path = <<>> THEN node
    ELSE FoldPath(IF index % 2 = 0 THEN Sha256d(node, Head(path))
                                   ELSE Sha256d(Head(path), node),
                  Tail(path), index \div 2)

NoL1TxCall == [txids |-> <<>>, idx |-> 0, outcome |-> "none", position |-> 0,
               cohashes |-> <<>>]

InitMerkle == l1tx_call = NoL1TxCall

\* generate_l1_tx(idx, block) for a block with the txids given: the proof is
\* L1TxProof::new(idx, cohashes).
GenerateL1Tx(txids, idx) ==
    /\ l1tx_call = NoL1TxCall
    /\ IndexInRange(txids, idx)
    /\ l1tx_call' = [txids |-> txids, idx |-> idx, outcome |-> "Ok", position |-> idx,
                     cohashes |-> GetCohashesFromTxids(txids, idx)]
    /\ UNCHANGED notMerkleVars

\* generate_l1_tx(idx, block) with idx out of range: the assert! panics.
GenerateL1TxPanics(txids, idx) ==
    /\ l1tx_call = NoL1TxCall
    /\ ~IndexInRange(txids, idx)
    /\ l1tx_call' = [txids |-> txids, idx |-> idx, outcome |-> "panicked", position |-> 0,
                     cohashes |-> <<>>]
    /\ UNCHANGED notMerkleVars

NextMerkle ==
    \/ /\ l1tx_call = NoL1TxCall
       /\ \E txids \in TxidLists, idx \in 0..MaxTxs : GenerateL1Tx(txids, idx)
    \/ /\ l1tx_call = NoL1TxCall
       /\ \E txids \in TxidLists, idx \in 0..MaxTxs : GenerateL1TxPanics(txids, idx)

(***************************************************************************)
(* verify_and_transition (cl-stf).                                         *)
(* A block carries what the two checks and process_block find in it; a     *)
(* chain state is the list of the ids of the blocks applied.               *)
(***************************************************************************)
StfBlocks ==
    [id : 1..MaxStfBlocks, signed : BOOLEAN, segments_match : BOOLEAN,
     processable : BOOLEAN]

NoChainState == <<0>>

NoStfBlock == [id |-> 0, signed |-> FALSE, segments_match |-> FALSE, processable |-> FALSE]

InitStf ==
    /\ stf_pc = "idle"
    /\ stf_block = NoStfBlock
    /\ stf_prev = <<>>
    /\ stf_steps = <<>>
    /\ stf_result = NoChainState
    /\ stf_chain = <<>>

\* check_block_credential(block.header(), chain_params).
CheckBlockCredential(block) == block.signed

\* Variant: the segments are not compared with the header.
ValidateBlockSegmentsSkipped(block) == TRUE

\* validate_block_segments(block).
ValidateBlockSegments(block) == block.segments_match

\* process_block on the state cache, then state_cache.state().
ProcessBlock(prev_chstate, block) == Append(prev_chstate, block.id)

\* The prover calls verify_and_transition with the chain state it holds.
VerifyAndTransitionCalled(block) ==
    /\ stf_pc \in {"idle", "returned", "panicked"}
    /\ Len(stf_chain) < MaxStfBlocks
    /\ stf_pc' = "check_credential"
    /\ stf_block' = block
    /\ stf_prev' = stf_chain
    /\ stf_steps' = <<>>
    /\ stf_result' = NoChainState
    /\ UNCHANGED <<stf_chain, notStfVars>>

\* verify_l2_block: the first assert!.
AssertCredential ==
    /\ stf_pc = "check_credential"
    /\ stf_steps' = Append(stf_steps, "check_block_credential")
    /\ stf_pc' = IF CheckBlockCredential(stf_block) THEN "check_segments" ELSE "panicked"
    /\ UNCHANGED <<stf_block, stf_prev, stf_result, stf_chain, notStfVars>>

\* verify_l2_block: the second assert!.
AssertSegments ==
    /\ stf_pc = "check_segments"
    /\ stf_steps' = Append(stf_steps, "validate_block_segments")
    /\ stf_pc' = IF ValidateBlockSegments(stf_block) THEN "apply" ELSE "panicked"
    /\ UNCHANGED <<stf_block, stf_prev, stf_result, stf_chain, notStfVars>>

\* apply_state_transition: process_block(..).expect(..), and the state of the
\* cache is returned.
ApplyStateTransition ==
    /\ stf_pc = "apply"
    /\ stf_steps' = Append(stf_steps, "process_block")
    /\ IF stf_block.processable
       THEN /\ stf_pc' = "returned"
            /\ stf_result' = ProcessBlock(stf_prev, stf_block)
            /\ stf_chain' = ProcessBlock(stf_prev, stf_block)
       ELSE /\ stf_pc' = "panicked"
            /\ UNCHANGED <<stf_result, stf_chain>>
    /\ UNCHANGED <<stf_block, stf_prev, notStfVars>>

NextStf ==
    \/ \E block \in StfBlocks : VerifyAndTransitionCalled(block)
    \/ AssertCredential
    \/ AssertSegments
    \/ ApplyStateTransition

(***************************************************************************)
(* parse_deposit_request_script and extract_deposit_request_info.          *)
(* A script is the list of its instructions, an opcode or a data push; the *)
(* bytes of a push are a sequence of numbers.                              *)
(***************************************************************************)
PushLimit == 80

HashLen == 32

EvmAddressLength == 20

\* config.magic_bytes, and the magic bytes of another protocol.
MagicBytes == <<101, 120, 112, 114>>

InvalidMagicBytes == <<0, 0, 0, 0>>

DepositTxConfigs ==
    [magic_bytes : {MagicBytes}, address_length : {EvmAddressLength, MaxAddressLength}]

Fill(byte, n) == [k \in 1..n |-> byte]

Op(opcode) == [kind |-> "op", op |-> opcode, bytes |-> <<>>]

PushBytes(data) == [kind |-> "push", op |-> "", bytes |-> data]

\* The data of the pushes tried: a prefix, hash bytes, address bytes.
PushData ==
    {prefix \o Fill(255, hash_len) \o Fill(1, addr_len) :
        prefix \in {MagicBytes, InvalidMagicBytes, SubSeq(MagicBytes, 1, 2), <<>>},
        hash_len \in {0, HashLen - 1, HashLen},
        addr_len \in 0..(MaxPushLen - HashLen - Len(MagicBytes))}

Scripts ==
    {<<>>, <<Op("OP_RETURN")>>, <<Op("OP_RETURN"), Op("OP_RETURN")>>}
    \cup {<<Op("OP_RETURN"), PushBytes(data)>> : data \in PushData}
    \cup {<<PushBytes(data)>> : data \in PushData}
    \cup {<<Op("OP_TRUE"), PushBytes(data)>> : data \in PushData}

\* build_test_deposit_request_script(magic, hash, addr).
BuildDepositRequestScript(magic, hash, addr) ==
    <<Op("OP_RETURN"), PushBytes(magic \o hash \o addr)>>

\* next_op(&mut instructions): the instruction is taken off the iterator.
NextOp(instructions) ==
    IF instructions # <<>> /\ Head(instructions).kind = "op"
    THEN Head(instructions).op
    ELSE "None"

\* next_bytes(&mut instructions), for the iterator after NextOp.
NextBytes(instructions) ==
    IF Len(instructions) >= 2 /\ instructions[2].kind = "push"
    THEN instructions[2]
    ELSE Op("None")

ParseErr(error, len) ==
    [outcome |-> "Err", error |-> error, len |-> len, tap_ctrl_blk_hash |-> <<>>,
     ee_bytes |-> <<>>]

ParsePanicked ==
    [outcome |-> "panicked", error |-> "", len |-> 0, tap_ctrl_blk_hash |-> <<>>,
     ee_bytes |-> <<>>]

\* `assert!(data.len() < 80)`.
DataLenWithinLimit(data) == Len(data) < PushLimit

\* `data.len() < magic_len || &data[..magic_len] != magic_bytes`, negated.
HasMagicBytes(data, magic_bytes) ==
    ~(Len(data) < Len(magic_bytes) \/ SubSeq(data, 1, Len(magic_bytes)) # magic_bytes)

\* parse_deposit_request_script(script, config).
ParseDepositRequestScript(script, config) ==
    IF NextOp(script) # "OP_RETURN" THEN ParseErr("NoOpReturn", 0)
    ELSE IF NextBytes(script).kind # "push" THEN ParseErr("NoData", 0)
    ELSE LET data == NextBytes(script).bytes
             magic_len == Len(config.magic_bytes)
             rest == SubSeq(data, magic_len + 1, Len(data))
             address == SubSeq(rest, HashLen + 1, Len(rest))
         IN IF ~DataLenWithinLimit(data) THEN ParsePanicked
            ELSE IF ~HasMagicBytes(data, config.magic_bytes)
            THEN ParseErr("MagicBytesMismatch", 0)
            ELSE IF Len(rest) < HashLen THEN ParseErr("LeafHashLenMismatch", 0)
            ELSE IF Len(address) # config.address_length
            THEN ParseErr("InvalidDestAddress", Len(address) % 256)
            ELSE [outcome |-> "Ok", error |-> "", len |-> 0,
                  tap_ctrl_blk_hash |-> SubSeq(rest, 1, HashLen),
                  ee_bytes |-> address]

\* The transactions tried: no output, one output, or two outputs with the
\* script in the second; bridge_offer is what check_bridge_offer_output finds.
TxOut(value, script) == [value |-> value, script_pubkey |-> script]

Transactions ==
    LET offers == {TxOut(value, <<>>) : value \in {10, 20}}
    IN [output : {<<>>} \cup {<<offer>> : offer \in offers}
                 \cup {<<offer, TxOut(0, script)>> : offer \in offers, script \in Scripts},
        bridge_offer : BOOLEAN]

\* check_bridge_offer_output(tx, config).is_ok().
CheckBridgeOfferOutput(tx, config) == tx.bridge_offer

NoInfo == [amt |-> 0, address |-> <<>>, take_back_leaf_hash |-> <<>>]

\* extract_deposit_request_info(tx, config): "None", "Some" with the info, or
\* the panic of the parser.
ExtractDepositRequestInfo(tx, config) ==
    IF Len(tx.output) < 2 THEN [outcome |-> "None", info |-> NoInfo]
    ELSE LET parsed == ParseDepositRequestScript(tx.output[2].script_pubkey, config)
         IN IF parsed.outcome = "panicked" THEN [outcome |-> "panicked", info |-> NoInfo]
            ELSE IF parsed.outcome # "Ok" THEN [outcome |-> "None", info |-> NoInfo]
            ELSE IF ~CheckBridgeOfferOutput(tx, config)
            THEN [outcome |-> "None", info |-> NoInfo]
            ELSE [outcome |-> "Some",
                  info |-> [amt |-> tx.output[1].value, address |-> parsed.ee_bytes,
                            take_back_leaf_hash |-> parsed.tap_ctrl_blk_hash]]

NoTx == [output |-> <<>>, bridge_offer |-> FALSE]

NoDepositCall ==
    [fn |-> "none", config |-> [magic_bytes |-> <<>>, address_length |-> 0],
     script |-> <<>>, tx |-> NoTx, parsed |-> ParseErr("", 0),
     extracted |-> [outcome |-> "None", info |-> NoInfo]]

InitDeposit == deposit_call = NoDepositCall

\* A call of parse_deposit_request_script.
ParseCalled(script, config) ==
    /\ deposit_call' = [NoDepositCall EXCEPT !.fn = "parse", !.config = config,
                           !.script = script,
                           !.parsed = ParseDepositRequestScript(script, config)]
    /\ UNCHANGED notDepositVars

\* A call of extract_deposit_request_info.
ExtractCalled(tx, config) ==
    /\ deposit_call' = [NoDepositCall EXCEPT !.fn = "extract", !.config = config,
                           !.tx = tx,
                           !.extracted = ExtractDepositRequestInfo(tx, config)]
    /\ UNCHANGED notDepositVars

NextDeposit ==
    \/ /\ deposit_call = NoDepositCall
       /\ \E script \in Scripts, config \in DepositTxConfigs : ParseCalled(script, config)
    \/ /\ deposit_call = NoDepositCall
       /\ \E tx \in Transactions, config \in DepositTxConfigs : ExtractCalled(tx, config)

(***************************************************************************)
(* create_and_sign_blob_inscriptions.                                      *)
(* A transaction is what the builder made of the blob and of the wallet's  *)
(* UTXO it spends; its txid covers everything but the signature.           *)
(***************************************************************************)
Blobs == 1..MaxBlobs

Utxos == {"u1", "u2"}

NoInscTx == [kind |-> "none", blob |-> 0, utxo |-> "", signed |-> FALSE]

\* The pair of build_inscription_txs: the reveal spends the commit.
CommitTx(blob, utxo) == [kind |-> "commit", blob |-> blob, utxo |-> utxo, signed |-> FALSE]

RevealTx(blob, utxo) == [kind |-> "reveal", blob |-> blob, utxo |-> utxo, signed |-> TRUE]

\* tx.compute_txid().into().
ComputeTxid(tx) == <<tx.kind, tx.blob, tx.utxo>>

Txids == {ComputeTxid(CommitTx(b, u)) : b \in Blobs, u \in Utxos}
         \cup {ComputeTxid(RevealTx(b, u)) : b \in Blobs, u \in Utxos}

\* L1TxEntry::from_tx(tx).
L1TxEntryFromTx(tx) == [tx |-> tx, status |-> "Unpublished"]

NoInscResult == [kind |-> "none", cid |-> <<>>, rid |-> <<>>, failed |-> ""]

InscErr(step) == [kind |-> "Err", cid |-> <<>>, rid |-> <<>>, failed |-> step]

InitInscription ==
    /\ insc_pc = "idle"
    /\ insc_blob = 0
    /\ insc_commit = NoInscTx
    /\ insc_reveal = NoInscTx
    /\ insc_result = NoInscResult
    /\ bcast_store = <<>>

\* bhandle.insert_new_tx_entry(txid, entry), when it succeeds.
InsertNewTxEntry(store, txid, entry) ==
    [id \in DOMAIN store \cup {txid} |-> IF id = txid THEN entry ELSE store[id]]

\* The writer calls create_and_sign_blob_inscriptions for a blob entry.
CreateAndSignCalled(blob) ==
    /\ insc_pc \in {"idle", "returned"}
    /\ insc_pc' = "build"
    /\ insc_blob' = blob
    /\ insc_commit' = NoInscTx
    /\ insc_reveal' = NoInscTx
    /\ insc_result' = NoInscResult
    /\ UNCHANGED <<bcast_store, notInscriptionVars>>

\* build_inscription_txs(..).await returns the pair.
BuildInscriptionTxs(utxo) ==
    /\ insc_pc = "build"
    /\ insc_pc' = "sign"
    /\ insc_commit' = CommitTx(insc_blob, utxo)
    /\ insc_reveal' = RevealTx(insc_blob, utxo)
    /\ UNCHANGED <<insc_blob, insc_result, bcast_store, notInscriptionVars>>

\* build_inscription_txs(..).await? returns the error.
BuildFails ==
    /\ insc_pc = "build"
    /\ insc_pc' = "returned"
    /\ insc_result' = InscErr("build")
    /\ UNCHANGED <<insc_blob, insc_commit, insc_reveal, bcast_store, notInscriptionVars>>

\* client.sign_raw_transaction_with_wallet(commit).await returns the signed
\* commit.
SignCommit ==
    /\ insc_pc = "sign"
    /\ insc_pc' = "insert_commit"
    /\ insc_commit' = [insc_commit EXCEPT !.signed = TRUE]
    /\ UNCHANGED <<insc_blob, insc_reveal, insc_result, bcast_store, notInscriptionVars>>

SignFails ==
    /\ insc_pc = "sign"
    /\ insc_pc' = "returned"
    /\ insc_result' = InscErr("sign")
    /\ UNCHANGED <<insc_blob, insc_commit, insc_reveal, bcast_store, notInscriptionVars>>

\* Variant: the two inserts swapped, the reveal entry goes in first.
InsertCommitInsertsReveal ==
    /\ insc_pc = "insert_commit"
    /\ insc_pc' = "insert_reveal"
    /\ bcast_store' = InsertNewTxEntry(bcast_store, ComputeTxid(insc_reveal),
                                       L1TxEntryFromTx(insc_reveal))
    /\ UNCHANGED <<insc_blob, insc_commit, insc_reveal, insc_result, notInscriptionVars>>

\* bhandle.insert_new_tx_entry(cid, centry).await succeeds.
InsertCommit ==
    /\ insc_pc = "insert_commit"
    /\ insc_pc' = "insert_reveal"
    /\ bcast_store' = InsertNewTxEntry(bcast_store, ComputeTxid(insc_commit),
                                       L1TxEntryFromTx(insc_commit))
    /\ UNCHANGED <<insc_blob, insc_commit, insc_reveal, insc_result, notInscriptionVars>>

InsertCommitFails ==
    /\ insc_pc = "insert_commit"
    /\ insc_pc' = "returned"
    /\ insc_result' = InscErr("insert_commit")
    /\ UNCHANGED <<insc_blob, insc_commit, insc_reveal, bcast_store, notInscriptionVars>>

\* bhandle.insert_new_tx_entry(rid, rentry).await succeeds, and Ok((cid, rid)).
InsertReveal ==
    /\ insc_pc = "insert_reveal"
    /\ insc_pc' = "returned"
    /\ bcast_store' = InsertNewTxEntry(bcast_store, ComputeTxid(insc_reveal),
                                       L1TxEntryFromTx(insc_reveal))
    /\ insc_result' = [kind |-> "Ok", cid |-> ComputeTxid(insc_commit),
                       rid |-> ComputeTxid(insc_reveal), failed |-> ""]
    /\ UNCHANGED <<insc_blob, insc_commit, insc_reveal, notInscriptionVars>>

\* Variant: the error of the second insert is dropped and the pair returned.
InsertRevealFailsIgnored ==
    /\ insc_pc = "insert_reveal"
    /\ insc_pc' = "returned"
    /\ insc_result' = [kind |-> "Ok", cid |-> ComputeTxid(insc_commit),
                       rid |-> ComputeTxid(insc_reveal), failed |-> ""]
    /\ UNCHANGED <<insc_blob, insc_commit, insc_reveal, bcast_store, notInscriptionVars>>

InsertRevealFails ==
    /\ insc_pc = "insert_reveal"
    /\ insc_pc' = "returned"
    /\ insc_result' = InscErr("insert_reveal")
    /\ UNCHANGED <<insc_blob, insc_commit, insc_reveal, bcast_store, notInscriptionVars>>

\* The node crashes while the call is under way and restarts: the locals of
\* the call are lost, the broadcast database keeps what was inserted.
InscriptionCrash ==
    /\ insc_pc \in {"build", "sign", "insert_commit", "insert_reveal"}
    /\ insc_pc' = "idle"
    /\ insc_blob' = 0
    /\ insc_commit' = NoInscTx
    /\ insc_reveal' = NoInscTx
    /\ insc_result' = NoInscResult
    /\ UNCHANGED <<bcast_store, notInscriptionVars>>

NextInscription ==
    \/ \E blob \in Blobs : CreateAndSignCalled(blob)
    \/ \E utxo \in Utxos : BuildInscriptionTxs(utxo)
    \/ BuildFails
    \/ SignCommit
    \/ SignFails
    \/ InsertCommit
    \/ InsertCommitFails
    \/ InsertReveal
    \/ InsertRevealFails
    \/ InscriptionCrash

(***************************************************************************)
(* AdminServerImpl::stop.                                                  *)
(***************************************************************************)
StopCallers == 1..MaxStopCallers

\* AdminServerImpl::new: stop_tx = Mutex::new(Some(stop_tx)).
InitStop ==
    /\ stop_tx = "Some"
    /\ stop_lock = 0
    /\ stop_pc = [c \in StopCallers |-> "idle"]
    /\ stop_rx = "waiting"
    /\ stop_takes = <<>>
    /\ stop_sent_by = <<>>
    /\ stop_results = <<>>
    /\ stop_calls = 0

\* A client calls the stop RPC.
StopCalled(c) ==
    /\ stop_pc[c] = "idle"
    /\ stop_calls < MaxStopCalls
    /\ stop_calls' = stop_calls + 1
    /\ stop_pc' = [stop_pc EXCEPT ![c] = "lock"]
    /\ UNCHANGED <<stop_tx, stop_lock, stop_rx, stop_takes, stop_sent_by, stop_results,
                   notStopVars>>

\* self.stop_tx.lock().await: the caller waits until the guard is free.
StopLock(c) ==
    /\ stop_pc[c] = "lock"
    /\ stop_lock = 0
    /\ stop_lock' = c
    /\ stop_pc' = [stop_pc EXCEPT ![c] = "take"]
    /\ UNCHANGED <<stop_tx, stop_rx, stop_takes, stop_sent_by, stop_results, stop_calls,
                   notStopVars>>

\* Variant: the sender is read but left in the Option.
StopTakeKeepsSender(c) ==
    /\ stop_pc[c] = "take"
    /\ stop_takes' = Append(stop_takes, c)
    /\ stop_pc' = [stop_pc EXCEPT ![c] = IF stop_tx = "Some" THEN "send" ELSE "return"]
    /\ UNCHANGED <<stop_tx, stop_lock, stop_rx, stop_sent_by, stop_results, stop_calls,
                   notStopVars>>

\* `if let Some(stop_tx) = opt.take()`.
StopTake(c) ==
    /\ stop_pc[c] = "take"
    /\ stop_takes' = Append(stop_takes, c)
    /\ stop_tx' = "None"
    /\ stop_pc' = [stop_pc EXCEPT ![c] = IF stop_tx = "Some" THEN "send" ELSE "return"]
    /\ UNCHANGED <<stop_lock, stop_rx, stop_sent_by, stop_results, stop_calls, notStopVars>>

\* stop_tx.send(()): the receiver gets the signal, or is_err() when the
\* receiver was dropped, which is only logged.
StopSend(c) ==
    /\ stop_pc[c] = "send"
    /\ stop_sent_by' = Append(stop_sent_by, c)
    /\ stop_rx' = IF stop_rx = "waiting" THEN "signalled" ELSE stop_rx
    /\ stop_pc' = [stop_pc EXCEPT ![c] = "return"]
    /\ UNCHANGED <<stop_tx, stop_lock, stop_takes, stop_results, stop_calls, notStopVars>>

\* Ok(()): the guard is dropped.
StopReturns(c) ==
    /\ stop_pc[c] = "return"
    /\ stop_results' = Append(stop_results, "Ok")
    /\ stop_lock' = 0
    /\ stop_pc' = [stop_pc EXCEPT ![c] = "idle"]
    /\ UNCHANGED <<stop_tx, stop_rx, stop_takes, stop_sent_by, stop_calls, notStopVars>>

\* The task holding the oneshot receiver ends and drops it.
StopReceiverDropped ==
    /\ stop_rx = "waiting"
    /\ stop_rx' = "dropped"
    /\ UNCHANGED <<stop_tx, stop_lock, stop_pc, stop_takes, stop_sent_by, stop_results,
                   stop_calls, notStopVars>>

NextStop ==
    \/ \E c \in StopCallers : StopCalled(c)
    \/ \E c \in StopCallers : StopLock(c)
    \/ \E c \in StopCallers : StopTake(c)
    \/ \E c \in StopCallers : StopSend(c)
    \/ \E c \in StopCallers : StopReturns(c)
    \/ StopReceiverDropped

(***************************************************************************)
(* apply_write_batch_to_chainstate: the for loop over batch.ops, one       *)
(* iteration per step, and its replay from the same pre-state.             *)
(***************************************************************************)
\* enum StateOp.
StateOpReplace(new_state) == [kind |-> "Replace", arg |-> new_state]
StateOpRevertL1Height(to_height) == [kind |-> "RevertL1Height", arg |-> to_height]
StateOpAcceptL1Block(new_blkid) == [kind |-> "AcceptL1Block", arg |-> new_blkid]

RevertHeights == 0..1

StateOps ==
    {StateOpReplace(c) : c \in ChainStates}
        \cup {StateOpRevertL1Height(h) : h \in RevertHeights}
        \cup {StateOpAcceptL1Block(b) : b \in L1BlockIds}

\* WriteBatch: a Vec<StateOp>.
WriteBatches == SeqsUpTo(StateOps, MaxBatchLen)

\* No chainstate: before the call, and before the first result.
NoBatchState == "none"

InitBatch ==
    /\ wb_input = NoBatchState
    /\ wb_ops = <<>>
    /\ wb_pos = 0
    /\ chainstate = NoBatchState
    /\ wb_pc = "idle"
    /\ wb_first = NoBatchState

\* The call: the argument is moved into `mut chainstate`.
ApplyWriteBatchCalled(cs, batch) ==
    /\ wb_pc = "idle"
    /\ wb_input' = cs
    /\ wb_ops' = batch
    /\ wb_pos' = 0
    /\ chainstate' = cs
    /\ wb_pc' = "loop"
    /\ UNCHANGED <<wb_first, notBatchVars>>

\* The op of the iteration the loop is about to run.
CurrentOp == wb_ops[wb_pos + 1]

\* StateOp::Replace(new_state) => chainstate = new_state.as_ref().clone().
ApplyOpReplace ==
    /\ wb_pc = "loop"
    /\ wb_pos < Len(wb_ops)
    /\ CurrentOp.kind = "Replace"
    /\ chainstate' = CurrentOp.arg
    /\ wb_pos' = wb_pos + 1
    /\ UNCHANGED <<wb_input, wb_ops, wb_pc, wb_first, notBatchVars>>

\* Variant: the height revert falls back to the chainstate of the call.
ApplyOpRevertL1HeightReverts ==
    /\ wb_pc = "loop"
    /\ wb_pos < Len(wb_ops)
    /\ CurrentOp.kind = "RevertL1Height"
    /\ chainstate' = wb_input
    /\ wb_pos' = wb_pos + 1
    /\ UNCHANGED <<wb_input, wb_ops, wb_pc, wb_first, notBatchVars>>

\* StateOp::RevertL1Height(to_height) => { // TODO }: an empty arm.
ApplyOpRevertL1Height ==
    /\ wb_pc = "loop"
    /\ wb_pos < Len(wb_ops)
    /\ CurrentOp.kind = "RevertL1Height"
    /\ wb_pos' = wb_pos + 1
    /\ UNCHANGED <<wb_input, wb_ops, chainstate, wb_pc, wb_first, notBatchVars>>

\* StateOp::AcceptL1Block(new_blkid) => { // TODO }: an empty arm.
ApplyOpAcceptL1Block ==
    /\ wb_pc = "loop"
    /\ wb_pos < Len(wb_ops)
    /\ CurrentOp.kind = "AcceptL1Block"
    /\ wb_pos' = wb_pos + 1
    /\ UNCHANGED <<wb_input, wb_ops, chainstate, wb_pc, wb_first, notBatchVars>>

\* The loop is over: `chainstate` is returned.
ApplyWriteBatchReturns ==
    /\ wb_pc = "loop"
    /\ wb_pos = Len(wb_ops)
    /\ wb_pc' = "done"
    /\ UNCHANGED <<wb_input, wb_ops, wb_pos, chainstate, wb_first, notBatchVars>>

\* Recovery: the same batch is applied again to the same pre-state.
ReplayWriteBatch ==
    /\ wb_pc = "done"
    /\ wb_first = NoBatchState
    /\ wb_first' = chainstate
    /\ chainstate' = wb_input
    /\ wb_pos' = 0
    /\ wb_pc' = "loop"
    /\ UNCHANGED <<wb_input, wb_ops, notBatchVars>>

NextBatch ==
    \/ /\ wb_pc = "idle"
       /\ \E cs \in ChainStates, batch \in WriteBatches : ApplyWriteBatchCalled(cs, batch)
    \/ ApplyOpReplace
    \/ ApplyOpRevertL1Height
    \/ ApplyOpAcceptL1Block
    \/ ApplyWriteBatchReturns
    \/ ReplayWriteBatch

(***************************************************************************)
(* AlpenRpcImpl::get_block_witness_raw.                                    *)
(***************************************************************************)
\* The values of idx: 0 ..= u64::MAX at the width of the model.
IdxModulus == 2 ^ IdxBits
WitnessIdxs == 0..MaxWitnessIdx

\* No index was asked of the chainstate store.
NotComputed == -1

NoWitnessCall == [idx |-> 0, prev_idx |-> NotComputed, result |-> "none"]

\* `idx - 1` on u64 in a build without overflow checks: it wraps.
WrappingSub(a, b) == (a - b + IdxModulus) % IdxModulus

\* `idx - 1` on u64 in a build with overflow checks panics with "attempt to
\* subtract with overflow".
SubOverflows(a, b) == a < b

InitWitness ==
    /\ l2_heights = {}
    /\ toplevel_states = {}
    /\ wit_call = NoWitnessCall

\* The node stores an L2 block at height h (the genesis block at height 0).
StoreL2Block(h) ==
    /\ h \notin l2_heights
    /\ l2_heights' = l2_heights \cup {h}
    /\ UNCHANGED <<toplevel_states, wit_call, notWitnessVars>>

\* The node writes the toplevel chain state of index i.
WriteToplevelState(i) ==
    /\ i \notin toplevel_states
    /\ toplevel_states' = toplevel_states \cup {i}
    /\ UNCHANGED <<l2_heights, wit_call, notWitnessVars>>

\* get_blocks_at_height(idx) is empty: `None => return Ok(None)`.
WitnessNoBlock(idx) ==
    /\ idx \notin l2_heights
    /\ wit_call' = [idx |-> idx, prev_idx |-> NotComputed, result |-> "None"]
    /\ UNCHANGED <<l2_heights, toplevel_states, notWitnessVars>>

\* get_blocks_at_height returns Err, or fetch_l2blk fails: the `?` returns
\* before the chainstate closure runs.
WitnessBlockError(idx) ==
    /\ wit_call' = [idx |-> idx, prev_idx |-> NotComputed, result |-> "Err"]
    /\ UNCHANGED <<l2_heights, toplevel_states, notWitnessVars>>

\* The block is there and the closure evaluates get_toplevel_state(idx - 1)
\* without overflow checks: Some(state) gives the witness, None gives
\* MissingChainstate(idx - 1).
WitnessReadsChainstate(idx) ==
    /\ idx \in l2_heights
    /\ LET prev == WrappingSub(idx, 1) IN
          wit_call' = [idx |-> idx, prev_idx |-> prev,
                       result |-> IF prev \in toplevel_states
                                  THEN "Some" ELSE "MissingChainstate"]
    /\ UNCHANGED <<l2_heights, toplevel_states, notWitnessVars>>

\* The block is there and `idx - 1` overflows in a build with overflow
\* checks: the closure panics, spawn_blocking gives a JoinError and
\* wait_blocking turns it into Error::BlockingAbort.
WitnessPanics(idx) ==
    /\ idx \in l2_heights
    /\ SubOverflows(idx, 1)
    /\ wit_call' = [idx |-> idx, prev_idx |-> NotComputed, result |-> "BlockingAbort"]
    /\ UNCHANGED <<l2_heights, toplevel_states, notWitnessVars>>

\* get_toplevel_state returns Err: Error::Db.
WitnessChainstateError(idx) ==
    /\ idx \in l2_heights
    /\ wit_call' = [idx |-> idx, prev_idx |-> WrappingSub(idx, 1), result |-> "Err"]
    /\ UNCHANGED <<l2_heights, toplevel_states, notWitnessVars>>

NextWitness ==
    \/ \E h \in WitnessIdxs : StoreL2Block(h)
    \/ \E i \in WitnessIdxs : WriteToplevelState(i)
    \/ \E idx \in WitnessIdxs : WitnessNoBlock(idx)
    \/ \E idx \in WitnessIdxs : WitnessBlockError(idx)
    \/ \E idx \in WitnessIdxs : WitnessReadsChainstate(idx)
    \/ \E idx \in WitnessIdxs : WitnessPanics(idx)
    \/ \E idx \in WitnessIdxs : WitnessChainstateError(idx)

(***************************************************************************)
(* The specifications.                                                     *)
(***************************************************************************)
Init ==
    /\ InitWrites /\ InitDuty /\ InitTracker /\ InitHandler /\ InitSign /\ InitStub
    /\ InitProof /\ InitHeaders /\ InitMerkle /\ InitStf /\ InitDeposit /\ InitInscription
    /\ InitStop
    /\ InitCsm /\ InitBatch /\ InitWitness

SpecWrites == Init /\ [][NextWrites]_vars

SpecDuty == Init /\ [][NextDuty]_vars

\* The loops of the two duty tasks with their channels, one task at a time:
\* a behaviour runs the dispatcher (the workers it spawns keep running) or
\* the tracker.
NextLoops ==
    \/ InitTracker /\ \E duties \in DistinctSeqs(DutyIds) : SendBatch(duties)
    \/ InitTracker /\ DropSender
    \/ InitTracker /\ DispatchBatch
    \/ InitTracker /\ DispatchLagged
    \/ InitTracker /\ DispatchClosed
    \/ InitDuty /\ SendNotif
    \/ InitDuty /\ DropNotifSender
    \/ InitDuty /\ \E expired \in SUBSET DutyIds, new_duties \in DistinctSeqs(DutyIds) :
                       TrackerUpdated(expired, new_duties)
    \/ InitDuty /\ TrackerUpdateFailed
    \/ InitDuty /\ TrackerLagged
    \/ InitDuty /\ TrackerClosed

SpecLoops == Init /\ [][NextLoops]_vars

\* blocking_recv() returns as soon as a message, a Lagged or a Closed is
\* there for the receiver, and both tasks run on threads of their own: a
\* receive that stays possible is taken.
DispatcherReceives == DispatchBatch \/ DispatchLagged \/ DispatchClosed
TrackerReceives ==
    \/ \E expired \in SUBSET DutyIds, new_duties \in DistinctSeqs(DutyIds) :
           TrackerUpdated(expired, new_duties)
    \/ TrackerUpdateFailed
    \/ TrackerLagged
    \/ TrackerClosed

SpecHandler == Init /\ [][NextHandler]_vars

SpecSign == Init /\ [][NextSign]_vars

\* The worker runs on a thread of its own and thread::sleep returns: a round
\* of the poll loop that is due is taken.
SpecSignFair == SpecSign /\ WF_vars(SignBlockSteps)

SpecStub == Init /\ [][NextStub]_vars

SpecProof == Init /\ [][NextProof]_vars

SpecHeaders == Init /\ [][NextHeaders]_vars

SpecMerkle == Init /\ [][NextMerkle]_vars

SpecStf == Init /\ [][NextStf]_vars

SpecDeposit == Init /\ [][NextDeposit]_vars

SpecInscription == Init /\ [][NextInscription]_vars

SpecStop == Init /\ [][NextStop]_vars

SpecBatch == Init /\ [][NextBatch]_vars

SpecWitness == Init /\ [][NextWitness]_vars

SpecLoopsFair ==
    SpecLoops /\ WF_vars(DispatcherReceives) /\ WF_vars(TrackerReceives)

(***************************************************************************)
(* Properties of apply_writes_to_state, checked under SpecWrites.  A step  *)
(* that applies write w is a step with write' = w.                         *)
(***************************************************************************)
\* A step of the loop: some write was applied (or panicked).
Rolled(id) == write'.kind = "RollbackL1BlocksTo" /\ write'.arg = id
Buried(new_idx) == write'.kind = "UpdateBuried" /\ write'.arg = new_idx

C2_RollbackKeepsForkBlock ==
    [][\A id \in L1BlockIds :
          LET r == state.recent_l1_blocks IN
          (Rolled(id) /\ id \in Range(r) /\ NoDup(r)) =>
              \E p \in 1..Len(r) :
                  /\ r[p] = id
                  /\ state'.recent_l1_blocks = SubSeq(r, 1, p)]_vars

\* C3: RollbackL1BlocksTo(id) with id not in recent_l1_blocks panics; the
\* state is left as it was and no write is applied after a panic.
C3_RollbackMissingPanics ==
    [][/\ ~panicked
       /\ \A id \in L1BlockIds :
             (Rolled(id) /\ id \notin Range(state.recent_l1_blocks)) =>
                 (panicked' /\ state' = state)]_vars

\* C3 witness: the process died on a rollback to a block that was not there.
C3_Witness ==
    /\ panicked
    /\ write = RollbackL1BlocksTo(3)
    /\ state.recent_l1_blocks = <<1, 2>>

\* C4: UpdateBuried(new_idx) with new_idx > buried_l1_height and
\* d = new_idx - buried_l1_height <= len(recent_l1_blocks) does not panic,
\* removes exactly the first d entries of recent_l1_blocks, keeps the rest in
\* order and sets buried_l1_height to new_idx.
C4_UpdateBuriedDrainsFront ==
    [][\A new_idx \in 0..MaxBuried :
          LET r == state.recent_l1_blocks
              d == new_idx - state.buried_l1_height IN
          (Buried(new_idx) /\ new_idx > state.buried_l1_height /\ d <= Len(r)) =>
              /\ ~panicked'
              /\ Len(state'.recent_l1_blocks) = Len(r) - d
              /\ \A q \in 1..(Len(r) - d) : state'.recent_l1_blocks[q] = r[q + d]
              /\ state'.buried_l1_height = new_idx
              /\ state'.pending_l2_blocks = state.pending_l2_blocks
              /\ state'.chain_state = state.chain_state]_vars

\* C4 witness: two of three blocks were buried, the third one stays.
C4_Witness ==
    /\ write = UpdateBuried(2)
    /\ ~panicked
    /\ state.buried_l1_height = 2
    /\ state.recent_l1_blocks = <<3>>

\* C5: UpdateBuried(new_idx) panics when new_idx <= buried_l1_height or when
\* new_idx - buried_l1_height > len(recent_l1_blocks), with
\* recent_l1_blocks and buried_l1_height as they were before the write.
C5_UpdateBuriedInvalidPanics ==
    [][\A new_idx \in 0..MaxBuried :
          (/\ Buried(new_idx)
           /\ \/ new_idx <= state.buried_l1_height
              \/ new_idx - state.buried_l1_height > Len(state.recent_l1_blocks)) =>
              /\ panicked'
              /\ state'.recent_l1_blocks = state.recent_l1_blocks
              /\ state'.buried_l1_height = state.buried_l1_height]_vars

\* C5 witness: the process died on an UpdateBuried to the height already
\* buried, with blocks still in the window.
C5_Witness ==
    /\ panicked
    /\ write = UpdateBuried(1)
    /\ state.buried_l1_height = 1
    /\ state.recent_l1_blocks = <<2>>

\* C6 as stated: no write, Replace included, lowers buried_l1_height.
C6_BuriedNeverLower ==
    [][state'.buried_l1_height >= state.buried_l1_height]_vars

\* C6 amended: every write other than Replace leaves buried_l1_height at or
\* above its value before the write (Replace(cs) assigns cs's height).
C6_BuriedNeverLowerUnlessReplace ==
    [][write'.kind # "Replace" =>
          state'.buried_l1_height >= state.buried_l1_height]_vars

\* C6 witness: the buried height has been raised twice by UpdateBuried.
C6_Witness ==
    /\ write = UpdateBuried(3)
    /\ ~panicked
    /\ state.buried_l1_height = 3
    /\ Len(state.recent_l1_blocks) = 2

\* C7 as stated: recent_l1_blocks never holds an L1BlockId twice.
C7_NoDuplicates == NoDup(state.recent_l1_blocks)

\* C7 amended: from a duplicate-free recent_l1_blocks, every write other
\* than Replace and other than AcceptL1Block of an id already present leaves
\* recent_l1_blocks duplicate-free; and AcceptL1Block(id) right after a
\* successful RollbackL1BlocksTo(id) is such a write (the rollback removed id).
C7_NoDuplicatesUnlessReaccepted ==
    [][/\ (/\ NoDup(state.recent_l1_blocks)
           /\ write'.kind # "Replace"
           /\ ~(/\ write'.kind = "AcceptL1Block"
                /\ write'.arg \in Range(state.recent_l1_blocks)))
          => NoDup(state'.recent_l1_blocks)
       /\ (/\ write.kind = "RollbackL1BlocksTo"
           /\ ~panicked
           /\ NoDup(state.recent_l1_blocks)
           /\ write' = AcceptL1Block(write.arg))
          => NoDup(state'.recent_l1_blocks)]_vars

\* C7 witness: block 1 was accepted again after blocks 2 and 3, with no
\* other copy of it in the window.
C7_Witness ==
    /\ write = AcceptL1Block(1)
    /\ state.recent_l1_blocks = <<2, 3, 1>>
    /\ NoDup(state.recent_l1_blocks)

(***************************************************************************)
(* Properties of duty_dispatch_task, checked under SpecDuty.               *)
(***************************************************************************)
\* C9: at every moment at most one worker thread of each duty id is running.
C9_AtMostOneWorkerPerDuty ==
    \A id \in DutyIds : Cardinality(WorkersOf(id, "running")) <= 1

\* C9 witness: the worker of duty 1 was spawned before that of duty 2 and
\* still runs, and the batch handled last names duty 1 alone: it named a
\* duty in flight and spawned nothing for it.
C9_Witness ==
    /\ Len(threads) = 2
    /\ threads[1] = Worker(1, "running")
    /\ threads[2].duty = 2
    /\ update.duties = <<1>>
    /\ update.ev_idx = 2

\* C10: finished workers are reaped at the start of each batch, so a batch
\* that names a duty whose worker has failed, with none running, leaves a
\* running worker for that duty (the duty is retried).
C10_FailedDutyRetried ==
    [][(update' # update) =>
          \A t \in 1..Len(threads) :
              (/\ threads[t].status = "failed"
               /\ WorkersOf(threads[t].duty, "running") = {}
               /\ threads[t].duty \in Range(update'.duties))
              => \E u \in 1..Len(threads') :
                     /\ threads'[u].duty = threads[t].duty
                     /\ threads'[u].status = "running"]_vars

C12_SenderDroppedTaskReturns ==
    /\ closed ~> (dispatch_pc = "exited")
    /\ notif_closed ~> (tracker_pc = "exited")
    /\ [][/\ (dispatch_pc' # dispatch_pc)
              => dispatch_pc' = "exited" /\ closed /\ chan = <<>> /\ missed = 0
          /\ (Len(chan') < Len(chan)) => update' = Head(chan)
          /\ (tracker_pc' # tracker_pc)
              => tracker_pc' = "exited" /\ notif_closed /\ notif_chan = <<>>
                 /\ notif_missed = 0
          /\ (Len(notif_chan') < Len(notif_chan))
              => /\ Len(batch_queue') = Len(batch_queue) + 1
                 /\ batch_queue'[Len(batch_queue')].ev_idx = Head(notif_chan)]_vars

\* C12 witness: the sender was dropped with a batch still buffered; the
\* dispatcher has handled that batch, spawned its worker and returned.
C12_Witness ==
    /\ closed
    /\ dispatch_pc = "exited"
    /\ update.ev_idx = MaxEvIdx
    /\ chan = <<>>
    /\ threads # <<>>

\* C13: when recv() yields None (the channel from the reader is closed), the
\* handler has returned, and without an error: it is not in its loop any
\* more and has not failed.
C13_ClosedChannelHandlerReturns ==
    warned_none => handler_pc \notin {"loop", "failed"}

\* Some worker has failed.
SomeWorkerFailed == \E t \in 1..Len(threads) : threads[t].status = "failed"

\* C14: a failing worker never stops the dispatcher: the step in which a
\* worker fails leaves the dispatcher's loop, map and channel as they are,
\* the dispatcher leaves its loop only on a closed and drained channel, and
\* with failed workers around it still can receive a buffered batch and
\* spawns a worker for every duty of the batch that is no key of
\* pending_duties.
C14_FailedWorkerLeavesDispatcherRunning ==
    /\ [](SomeWorkerFailed /\ dispatch_pc = "loop" /\ chan # <<>> /\ missed = 0
             => ENABLED DispatchBatch)
    /\ [][/\ (SomeWorkerFailed' /\ threads' # threads /\ Len(threads') = Len(threads))
              => UNCHANGED <<dispatch_pc, pending_duties, chan, missed, closed, update>>
          /\ (dispatch_pc' # dispatch_pc) => closed /\ chan = <<>> /\ missed = 0
          /\ (SomeWorkerFailed /\ update' # update)
              => \A id \in Range(update'.duties) :
                     ~ContainsKey(pending_duties, id)
                     => /\ ContainsKey(pending_duties', id)
                        /\ pending_duties'[id] > Len(threads)
                        /\ threads'[pending_duties'[id]] = Worker(id, "running")]_vars

\* C14 witness: the worker of duty 1 has failed, and the dispatcher, still in
\* its loop, has handled the second batch and spawned the worker of duty 2.
C14_Witness ==
    /\ dispatch_pc = "loop"
    /\ threads = <<Worker(1, "failed"), Worker(2, "running")>>
    /\ update = DutyBatch(2, <<2>>)

\* C15: with an engine that answers Working to every poll, poll_status_loop
\* ends once the timeout has passed (at most one round late) and returns no
\* payload, so that sign_block returns the timeout error and the store holds
\* no block at the slot; and the poll always ends.
C15_WorkingEngineTimesOut ==
    /\ (sign_pc = "polling") ~> (sign_pc = "done")
    /\ [](sign_pc = "done" /\ polled = {"Working"}
             => /\ sign_result = "Err(EL block assembly timed out)"
                /\ blocks_at_slot = 0
                /\ elapsed > TimeoutMs
                /\ elapsed <= TimeoutMs + WaitMs + MaxOversleepMs)
    /\ [](sign_pc = "polling" /\ polled \subseteq {"Working"}
             => sign_result = "none" /\ blocks_at_slot = 0 /\ elapsed <= TimeoutMs)

\* C15 witness: every poll was answered Working and no sleep overran, the
\* poll at 3000 ms was not yet over the timeout, the one at 3100 ms was.
C15_Witness ==
    /\ sign_pc = "done"
    /\ polled = {"Working"}
    /\ elapsed = TimeoutMs + WaitMs
    /\ sign_result = "Err(EL block assembly timed out)"
    /\ blocks_at_slot = 0

\* C16: the ids prepare_payload returns are 1, 2, 3, ... in the order the
\* calls return, whatever the interleaving of the calling threads: the n-th
\* call to return returns n, no id is returned twice and none is skipped;
\* a call in progress holds the next id, and the jobs map has a key for
\* every id returned.
C16_JobIdsDense ==
    /\ \A n \in 1..Len(returned) : returned[n] = n
    /\ \A c \in Callers :
           call_pc[c] \in {"incr", "insert", "return"} => call_idx[c] = Len(returned) + 1
    /\ next_idx \in {Len(returned) + 1, Len(returned) + 2}
    /\ Range(returned) \subseteq payload_jobs

\* C16 witness: two calls have returned 1 and 2; the third call, of thread
\* 1, holds the lock and is about to return 3 while thread 2 waits for the
\* lock with the fourth call.
C16_Witness ==
    /\ returned = <<1, 2>>
    /\ mutex = 1
    /\ call_pc[1] = "return"
    /\ call_idx[1] = 3
    /\ call_pc[2] = "lock"
    /\ payload_jobs = {1, 2, 3}

\* The call that has just read the entry, in a step that starts a call.
SubmitStarted == submits' # submits
StartedCall == sub_call'[last_submit']

\* C17: a call that finds the entry in status PendingProof goes on to store
\* the submitted proof and transition with status ProofReady; a call that
\* finds the entry in status ProofReady returns ProofAlreadyCreated; and the
\* entry only ever changes from PendingProof to ProofReady.
C17_PendingToReadyThenAlreadyCreated ==
    [][/\ (SubmitStarted /\ StartedCall.entry.proving_status = "PendingProof"
                      /\ StartedCall.transition # "garbage")
           => /\ StartedCall.result = "put"
              /\ sub_entry'[last_submit'] =
                     CheckpointEntry("ProofReady", StartedCall.proofbytes,
                                     StartedCall.transition)
       /\ (SubmitStarted /\ StartedCall.entry.proving_status = "ProofReady")
           => StartedCall.result = "ProofAlreadyCreated" /\ checkpoint' = checkpoint
       /\ (checkpoint' # checkpoint /\ checkpoint # NoCheckpoint)
           => /\ checkpoint.proving_status = "PendingProof"
              /\ checkpoint'.proving_status = "ProofReady"]_vars

\* C18: with verify_proofs set, a call that submits an invalid proof for a
\* pending entry returns InvalidProof and leaves the entry as it is, and a
\* call that submits a valid proof is not rejected as InvalidProof.
C18_SubmittedProofVerified ==
    [][(SubmitStarted /\ verify_proofs
                      /\ StartedCall.entry.proving_status = "PendingProof")
          => /\ StartedCall.proofbytes = "invalid"
                 => /\ StartedCall.result = "InvalidProof"
                    /\ sub_pc'[last_submit'] = "idle"
                    /\ checkpoint' = checkpoint
             /\ StartedCall.proofbytes = "valid"
                 => StartedCall.result # "InvalidProof"]_vars

\* C19: get_recent_block_headers(count) returns FetchLimitReached whenever
\* count is above l2_blocks_fetch_limit.
C19_FetchLimitReachedWheneverAbove ==
    [][(hdr_call' # hdr_call /\ hdr_call'.count > FetchLimit)
          => hdr_call'.result = "FetchLimitReached"]_vars

\* C19, amended: with a started client get_recent_block_headers(count)
\* returns FetchLimitReached whenever count is above the limit (a client
\* that has not started answers ClientNotStarted, whatever the count);
\* otherwise it fails on a database error or a block missing from the store,
\* or returns at most count headers: the first is the chain tip's, each next
\* one is the parent's of the one before, which has neither block_idx 0 nor
\* a zero parent id, and fewer than count headers are returned only if the
\* last one has block_idx 0 or a zero parent id.
C19_HeadersFromTipWithinLimit ==
    [][(hdr_call' # hdr_call) =>
          LET count == hdr_call'.count
              headers == hdr_call'.headers
              n == Len(hdr_call'.headers)
          IN /\ client_sync = <<>> => hdr_call'.result = "ClientNotStarted"
             /\ (client_sync # <<>> /\ count > FetchLimit)
                 => hdr_call'.result = "FetchLimitReached"
             /\ (client_sync # <<>> /\ count <= FetchLimit)
                 => hdr_call'.result \in {"Ok", "MissingL2Block", "Other"}
             /\ hdr_call'.result # "Ok" => n = 0
             /\ hdr_call'.result = "Ok"
                 => /\ n <= count
                    /\ count > 0 => n >= 1 /\ headers[1].block_id = client_sync[1]
                    /\ \A k \in 1..n :
                           /\ headers[k].block_id \in StoredBlockIds
                           /\ l2_store[headers[k].block_id] # NoBlock
                           /\ headers[k].block_idx = l2_store[headers[k].block_id].blockidx
                           /\ headers[k].prev_block = l2_store[headers[k].block_id].parent
                    /\ \A k \in 1..(n - 1) :
                           /\ headers[k + 1].block_id = headers[k].prev_block
                           /\ headers[k].block_idx # 0
                           /\ headers[k].prev_block # ZeroBlkid
                    /\ (n < count)
                       => headers[n].block_idx = 0 \/ headers[n].prev_block = ZeroBlkid]_vars

\* C19 witness: a call with count 2 has returned the headers of the tip and
\* of its parent.
C19_Witness ==
    /\ hdr_call.result = "Ok"
    /\ hdr_call.count = 2
    /\ Len(hdr_call.headers) = 2
    /\ hdr_call.headers[1].block_id = client_sync[1]
    /\ hdr_call.headers[2].block_id = hdr_call.headers[1].prev_block

\* The cohashes of the call made, each with its bytes reversed back.
ReversedCohashes ==
    [k \in 1..Len(l1tx_call.cohashes) |-> Reverse(l1tx_call.cohashes[k])]

\* C20: the cohashes generate_l1_tx returns, folded as they are onto T[i],
\* give the Merkle root of T; the proof has position i.
C20_CohashesFoldToRoot ==
    l1tx_call.outcome = "Ok"
    => /\ l1tx_call.position = l1tx_call.idx
       /\ FoldPath(l1tx_call.txids[l1tx_call.idx + 1], l1tx_call.cohashes, l1tx_call.idx)
              = MerkleRoot(l1tx_call.txids)

\* C20, amended: every cohash is the sibling hash with its bytes reversed;
\* the cohashes with their bytes reversed back, folded onto T[i], give the
\* Merkle root of T, and the proof has position i.
C20_ReversedCohashesFoldToRoot ==
    l1tx_call.outcome = "Ok"
    => /\ l1tx_call.position = l1tx_call.idx
       /\ l1tx_call.idx < Len(l1tx_call.txids)
       /\ FoldPath(l1tx_call.txids[l1tx_call.idx + 1], ReversedCohashes, l1tx_call.idx)
              = MerkleRoot(l1tx_call.txids)

\* C20 witness: the proof of the last of five transactions, whose node is
\* paired with its own copy on the first two levels.
C20_Witness ==
    /\ l1tx_call.outcome = "Ok"
    /\ Len(l1tx_call.txids) = 5
    /\ l1tx_call.idx = 4
    /\ Len(l1tx_call.cohashes) = 3
    /\ l1tx_call.cohashes[1] = Reverse(l1tx_call.txids[5])

\* The least k with 2^k >= n.
CeilLog2(n) == CHOOSE k \in 0..n : 2^k >= n /\ (k > 0 => 2^(k - 1) < n)

\* C21: a call with idx < n returns exactly ceil(log2(n)) cohashes, none for
\* n = 1, and the call fails exactly when idx >= n.
C21_CohashCountIsCeilLog2 ==
    LET n == Len(l1tx_call.txids)
    IN /\ l1tx_call.outcome = "Ok"
          => /\ l1tx_call.idx < n
             /\ Len(l1tx_call.cohashes) = CeilLog2(n)
             /\ (n = 1 => l1tx_call.cohashes = <<>>)
       /\ l1tx_call.outcome = "panicked" => l1tx_call.idx >= n
       /\ l1tx_call.outcome # "none" /\ l1tx_call.idx < n => l1tx_call.outcome = "Ok"

\* C21 witness: two transactions give one cohash.
C21_Witness ==
    /\ l1tx_call.outcome = "Ok"
    /\ Len(l1tx_call.txids) = 2
    /\ l1tx_call.idx = 1
    /\ Len(l1tx_call.cohashes) = 1

\* C22: verify_and_transition returns a chain state only for a block whose
\* credential check passes and whose segments match its body; both checks
\* run, in this order, before process_block, and a failed check ends the
\* call in a panic with no state returned.
C22_NoStateForUnverifiedBlock ==
    /\ stf_pc = "returned" \/ stf_result # NoChainState
       => CheckBlockCredential(stf_block) /\ stf_block.segments_match
    /\ \A k \in 1..Len(stf_steps) :
          stf_steps[k] = "process_block"
          => /\ k = 3
             /\ stf_steps[1] = "check_block_credential"
             /\ stf_steps[2] = "validate_block_segments"
             /\ CheckBlockCredential(stf_block) /\ stf_block.segments_match
    /\ /\ stf_steps # <<>>
       /\ ~(CheckBlockCredential(stf_block) /\ stf_block.segments_match)
       /\ stf_pc \notin {"check_segments"}
       => stf_pc = "panicked" /\ stf_result = NoChainState

\* C22 witness: a signed block whose segments do not match its body has
\* stopped the call, after an earlier block was applied.
C22_Witness ==
    /\ stf_pc = "panicked"
    /\ stf_block.signed /\ ~stf_block.segments_match /\ stf_block.processable
    /\ stf_steps = <<"check_block_credential", "validate_block_segments">>
    /\ stf_result = NoChainState
    /\ stf_chain # <<>>

\* The script of a deposit request under the configuration of the call made.
RequestHash == Fill(255, HashLen)

RequestAddress == Fill(1, deposit_call.config.address_length)

RequestScript ==
    BuildDepositRequestScript(deposit_call.config.magic_bytes, RequestHash, RequestAddress)

\* C23: parsing the script OP_RETURN <magic || hash || addr>, with the
\* configured magic, a 32-byte hash and an address of the configured length,
\* returns that hash and that address; extract_deposit_request_info on a
\* two-output transaction with the script in output 1 (and an output 0 that
\* check_bridge_offer_output accepts) returns the amount of output 0 with
\* the same hash and address.
C23_DepositRequestRoundTrip ==
    /\ deposit_call.fn = "parse" /\ deposit_call.script = RequestScript
       => /\ deposit_call.parsed.outcome = "Ok"
          /\ deposit_call.parsed.tap_ctrl_blk_hash = RequestHash
          /\ deposit_call.parsed.ee_bytes = RequestAddress
    /\ /\ deposit_call.fn = "extract"
       /\ Len(deposit_call.tx.output) = 2
       /\ deposit_call.tx.output[2].script_pubkey = RequestScript
       /\ deposit_call.tx.bridge_offer
       => /\ deposit_call.extracted.outcome = "Some"
          /\ deposit_call.extracted.info =
                [amt |-> deposit_call.tx.output[1].value, address |-> RequestAddress,
                 take_back_leaf_hash |-> RequestHash]

\* What the fixed order of checks reports for the script of the call made.
FirstFailingCheck ==
    LET script == deposit_call.script
        config == deposit_call.config
        magic_len == Len(config.magic_bytes)
        data == script[2].bytes
    IN IF script = <<>> \/ script[1] # Op("OP_RETURN") THEN <<"NoOpReturn", 0>>
       ELSE IF Len(script) < 2 \/ script[2].kind # "push" THEN <<"NoData", 0>>
       ELSE IF Len(data) < magic_len \/ SubSeq(data, 1, magic_len) # config.magic_bytes
       THEN <<"MagicBytesMismatch", 0>>
       ELSE IF Len(data) - magic_len < HashLen THEN <<"LeafHashLenMismatch", 0>>
       ELSE IF Len(data) - magic_len - HashLen # config.address_length
       THEN <<"InvalidDestAddress", Len(data) - magic_len - HashLen>>
       ELSE <<"Ok", 0>>

\* C24: parse_deposit_request_script reports the first failing check in the
\* order NoOpReturn, NoData, MagicBytesMismatch, LeafHashLenMismatch,
\* InvalidDestAddress(actual length), and returns Ok only when all pass.
C24_FirstFailingCheckReported ==
    deposit_call.fn = "parse"
    => IF FirstFailingCheck[1] = "Ok"
       THEN deposit_call.parsed.outcome = "Ok"
       ELSE /\ deposit_call.parsed.outcome = "Err"
            /\ deposit_call.parsed.error = FirstFailingCheck[1]
            /\ deposit_call.parsed.len = FirstFailingCheck[2]

\* C25: on a script OP_RETURN <data> with a push of at most 80 bytes the
\* parser returns Ok or a DepositParseError; it does not panic.
C25_NoPanicUpToEightyBytes ==
    /\ deposit_call.fn = "parse"
    /\ NextOp(deposit_call.script) = "OP_RETURN"
    /\ NextBytes(deposit_call.script).kind = "push"
    /\ Len(NextBytes(deposit_call.script).bytes) <= PushLimit
    => deposit_call.parsed.outcome \in {"Ok", "Err"}

\* C26: after create_and_sign_blob_inscriptions returns Ok((cid, rid)) the
\* broadcaster store holds the entry of the signed commit under cid and the
\* entry of the reveal under rid; a call in which building, signing or an
\* insert failed returns an error and reports no pair.
C26_ReturnedPairIsStored ==
    [][/\ (insc_result'.kind = "Ok" /\ insc_result.kind # "Ok")
          => /\ insc_pc = "insert_reveal" /\ insc_pc' = "returned"
             /\ insc_result'.cid = ComputeTxid(insc_commit) /\ insc_commit.signed
             /\ insc_result'.rid = ComputeTxid(insc_reveal)
             /\ insc_result'.cid \in DOMAIN bcast_store'
             /\ bcast_store'[insc_result'.cid] = L1TxEntryFromTx(insc_commit)
             /\ insc_result'.rid \in DOMAIN bcast_store'
             /\ bcast_store'[insc_result'.rid] = L1TxEntryFromTx(insc_reveal)
       /\ (insc_pc \in {"build", "sign", "insert_commit"} /\ insc_pc' = "returned")
          => insc_result'.kind = "Err"
       /\ (insc_pc # "returned" /\ insc_pc' = "returned" /\ insc_result'.kind # "Ok")
          => /\ insc_result'.kind = "Err"
             /\ insc_result'.cid = <<>> /\ insc_result'.rid = <<>>
             /\ insc_result'.failed = insc_pc
             /\ bcast_store' = bcast_store]_vars

\* C26 witness: a call has returned the pair of the second blob while the
\* store holds a commit of the first blob without its reveal (an earlier
\* call failed at its second insert).
C26_Witness ==
    /\ insc_pc = "returned"
    /\ insc_result.kind = "Ok"
    /\ insc_blob = 2
    /\ insc_result.cid \in DOMAIN bcast_store
    /\ insc_result.rid \in DOMAIN bcast_store
    /\ \E u \in Utxos :
          /\ ComputeTxid(CommitTx(1, u)) \in DOMAIN bcast_store
          /\ ComputeTxid(RevealTx(1, u)) \notin DOMAIN bcast_store

\* C27: over all stop calls, sequential or concurrent, send is called on the
\* oneshot at most once, by the first call that ran opt.take(); every call
\* that returns returns Ok, later calls and calls after the receiver was
\* dropped included, and no call is left waiting for a guard nobody holds.
C27_StopSentAtMostOnce ==
    /\ Len(stop_sent_by) <= 1
    /\ stop_sent_by # <<>> => stop_takes # <<>> /\ stop_sent_by[1] = stop_takes[1]
    /\ \A c \in StopCallers : stop_pc[c] = "send" => stop_takes[1] = c /\ stop_sent_by = <<>>
    /\ \A k \in 1..Len(stop_results) : stop_results[k] = "Ok"
    /\ Len(stop_results) + Cardinality({c \in StopCallers : stop_pc[c] # "idle"}) = stop_calls
    /\ (\E c \in StopCallers : stop_pc[c] \in {"take", "send", "return"}) <=> stop_lock # 0

\* C27 witness: the first call found the receiver dropped, a later call has
\* returned as well, and a third has found the Option empty.
C27_Witness ==
    /\ stop_rx = "dropped"
    /\ Len(stop_sent_by) = 1
    /\ Len(stop_takes) = 3
    /\ stop_results = <<"Ok", "Ok">>
    /\ \E c \in StopCallers : stop_pc[c] = "return"
    /\ stop_calls = 3

\* C28: when the L2 store has a block at height slot, sign_block ends at
\* once with Ok (or with the error of the read itself), without preparing a
\* payload and without writing a block; repeated executions of the duty
\* store at most one block for the slot.
C28_SignBlockNoopWhenBlockStored ==
    /\ [](blocks_at_slot <= 1)
    /\ [](sign_pc = "start" /\ blocks_at_slot > 0 => ENABLED SignFindsBlock)
    /\ [][(sign_pc = "start" /\ blocks_at_slot > 0 /\ sign_pc' # sign_pc)
             => /\ sign_pc' = "done"
                /\ sign_result' \in {"Ok", "Err(db)"}
                /\ polled' = {} /\ elapsed' = elapsed
                /\ blocks_at_slot' = blocks_at_slot]_vars

\* C28 witness: the duty was executed again after its block was stored, and
\* returned Ok without a poll.
C28_Witness ==
    /\ blocks_at_slot = 1
    /\ sign_pc = "done"
    /\ sign_result = "Ok"
    /\ polled = {}

\* C29: once get_payload_status has answered Invalid, the call stores no
\* block and does not return Ok, whatever the later polls answer.
C29_InvalidPayloadFailsDuty ==
    [][("Invalid" \in polled /\ sign_pc = "polling")
          => blocks_at_slot' = blocks_at_slot /\ sign_result' # "Ok"]_vars

\* C30: when sign_block has returned after storing the block it built, the
\* consensus state machine has been sent an L2 block event for it.
C30_StoredBlockReachesCsm ==
    sign_pc = "done" /\ sign_result = "Ok" /\ "Ready" \in polled
    => csm_l2_events >= blocks_at_slot /\ csm_l2_events > 0

\* The handler takes a block off the channel for which detect_reorg answers
\* Some, and goes on with the loop.
ReorgHandled ==
    /\ rx_queue # <<>>
    /\ rx_queue' = Tail(rx_queue)
    /\ ReorgDetected(l1db, Head(rx_queue))
    /\ handler_pc' = "loop"

\* C31: when the handler detects a reorg for a received block it reverts the
\* L1 database to the fork height and writes a sync event marking the reorg
\* to the sync-event log.
C31_ReorgWritesSyncEvent ==
    [][ReorgHandled
          => /\ \E h \in 0..MaxBlockNum : l1db' = RevertToHeight(l1db, h)
             /\ Len(sync_events') = Len(sync_events) + 1]_vars

\* The handler takes a block off the channel and stores its manifest.
BlockPersisted ==
    /\ rx_queue # <<>>
    /\ rx_queue' = Tail(rx_queue)
    /\ l1db' # l1db
    /\ ~ReorgDetected(l1db, Head(rx_queue))

\* C32: for a normal block the handler persists one L1Tx per relevant index,
\* and the position of the k-th proof is the k-th relevant index.
C32_L1TxPositionsAreRelevantIndices ==
    [][BlockPersisted
          => LET blockdata == Head(rx_queue)
                 l1txs == l1db'[blockdata.block_num].l1txs
             IN /\ Len(l1txs) = Len(blockdata.relevant_txn_indices)
                /\ \A k \in 1..Len(l1txs) : l1txs[k] = blockdata.relevant_txn_indices[k]]_vars

\* C33: an L1Block(h, id) event is written only by a step that has stored
\* the manifest of block id at height h; a step that ends the handler with
\* an error writes no event; a block for which a reorg is detected is
\* neither stored nor turned into an event.
C33_ManifestBeforeSyncEvent ==
    [][/\ sync_events' # sync_events
          => /\ rx_queue # <<>>
             /\ sync_events' = Append(sync_events, L1BlockEvent(Head(rx_queue)))
             /\ ~ReorgDetected(l1db, Head(rx_queue))
             /\ l1db' = PutBlockData(l1db, Head(rx_queue))
             /\ l1db'[Head(rx_queue).block_num].blkid = Head(rx_queue).blkid
       /\ handler_pc' = "failed" => sync_events' = sync_events
       /\ (rx_queue # <<>> /\ rx_queue' = Tail(rx_queue)
             /\ ReorgDetected(l1db, Head(rx_queue)))
          => /\ sync_events' = sync_events
             /\ \A n \in BlockNums : l1db'[n] \in {l1db[n], NoManifest}]_vars

\* C33 witness: block 1 was stored and logged; block 2 did not build on it,
\* the reorg reverted the database, and block 2 left no manifest and no event.
C33_Witness ==
    /\ handler_pc = "loop"
    /\ rx_sent = 2 /\ rx_queue = <<>>
    /\ Len(sync_events) = 1 /\ sync_events[1][2] = 1
    /\ \A n \in BlockNums : l1db[n] = NoManifest

\* The L1 height of the newest block the state knows of.
L1TipHeight(s) == s.buried_l1_height + Len(s.recent_l1_blocks)

\* C34: a successful UpdateBuried write leaves buried_l1_height +
\* len(recent_l1_blocks) as it was, and every AcceptL1Block write raises it
\* by exactly 1.
C34_UpdateBuriedKeepsTipHeight ==
    [][/\ (write'.kind = "UpdateBuried" /\ ~panicked' /\ state' # state)
          => /\ L1TipHeight(state') = L1TipHeight(state)
             /\ state'.buried_l1_height = write'.arg
             /\ state'.buried_l1_height > state.buried_l1_height
       /\ (write'.kind = "AcceptL1Block" /\ state' # state)
          => L1TipHeight(state') = L1TipHeight(state) + 1]_vars

\* C34 witness: after three accepted blocks two successful UpdateBuried
\* writes have buried two of them, the second from a non-zero height.
C34_Witness ==
    /\ write = UpdateBuried(2)
    /\ ~panicked
    /\ state.buried_l1_height = 2
    /\ Len(state.recent_l1_blocks) = 1

\* The chain state of the last Replace among the first n ops of a batch, or
\* cs when there is none.
LastReplaceOr(cs, ops, n) ==
    LET replaces == {k \in 1..n : ops[k].kind = "Replace"}
    IN IF replaces = {} THEN cs
       ELSE ops[CHOOSE k \in replaces : \A j \in replaces : j <= k].arg

\* The Replace ops of a batch, in order.
ReplaceOps(ops) == SelectSeq(ops, LAMBDA op : op.kind = "Replace")

CommitOf(rid) == <<"commit", rid[2], rid[3]>>

\* C36: the commit entry is inserted before the reveal entry, so whenever
\* the broadcast database holds a reveal entry it holds the entry of its
\* commit, also after a crash or a failed second insert; and the second
\* insert is reached only with the commit entry of the call stored.
C36_RevealImpliesCommit ==
    /\ \A id \in DOMAIN bcast_store :
          id[1] = "reveal" => CommitOf(id) \in DOMAIN bcast_store
    /\ insc_pc = "insert_reveal" => ComputeTxid(insc_commit) \in DOMAIN bcast_store

\* C36 witness: one call stored its pair; a later call for another blob
\* crashed between the inserts and left a commit entry without its reveal.
C36_Witness ==
    /\ insc_pc = "idle"
    /\ \E id \in DOMAIN bcast_store : id[1] = "reveal"
    /\ \E b \in Blobs, u \in Utxos :
          /\ ComputeTxid(CommitTx(b, u)) \in DOMAIN bcast_store
          /\ ComputeTxid(RevealTx(b, u)) \notin DOMAIN bcast_store

\* C37: with concurrent calls for the same idx the read of the entry, the
\* PendingProof check and the write back are one atomic step: a call returns
\* Ok only by writing over an entry that is still PendingProof, so a stored
\* ProofReady entry is never overwritten and at most one call succeeds.
C37_SubmitIsAtomic ==
    [][\A c \in Submitters :
          (sub_call'[c].result = "Ok" /\ sub_call[c].result # "Ok")
             => /\ checkpoint.proving_status = "PendingProof"
                /\ \A d \in Submitters \ {c} : sub_call[d].result # "Ok"]_vars

\* The tracker task took a notification off its channel and update_tracker
\* returned Err for it.
UpdateTrackerFailed ==
    /\ Len(notif_chan') < Len(notif_chan)
    /\ update_result' = "Err"

\* C38: when update_tracker fails the DutyTracker keeps its duties, and the
\* task still publishes a DutyBatch with the ev_idx of the notification and
\* the unchanged duties, and stays in its loop.
C38_FailedUpdatePublishesUnchangedDuties ==
    [][UpdateTrackerFailed
          => /\ duties_tracker' = duties_tracker
             /\ batch_queue' = Append(batch_queue,
                                      DutyBatch(Head(notif_chan), duties_tracker))
             /\ tracker_pc' = "loop"]_vars

\* C38 witness: the first update stored duties, the second failed, and the
\* batch published last carries the second ev_idx and the duties of the first.
C38_Witness ==
    /\ update_result = "Err"
    /\ tracker_pc = "loop"
    /\ Len(batch_queue) = 2
    /\ duties_tracker # <<>>
    /\ batch_queue[2] = DutyBatch(2, duties_tracker)
    /\ batch_queue[1] = DutyBatch(1, duties_tracker)

\* C39: for every idx at which the L2 store has a block, idx = 0 included,
\* get_block_witness_raw computes idx - 1 without underflow: the closure does
\* not panic and the index it asks the chainstate store for is idx - 1; with no
\* block at idx it returns None and asks the chainstate store for nothing.
C39_PreviousIndexNeverUnderflows ==
    /\ wit_call.result # "BlockingAbort"
    /\ wit_call.prev_idx # NotComputed => wit_call.prev_idx = wit_call.idx - 1
    /\ wit_call.result = "None" => wit_call.prev_idx = NotComputed

====
